---- MODULE Spec2Model ----
(***************************************************************************)
(* Peer-to-peer vote reconciliation of the pokemon-comparison application:  *)
(* the battle reducer (context/BattleContext.tsx), the voting helpers       *)
(* (utils/votingHelpers.ts), the sync handlers of BattleArena.tsx, the     *)
(* browser vote ledger in localStorage, and the message router and life    *)
(* cycle of services/p2pService.ts.                                        *)
(***************************************************************************)
EXTENDS Integers, Sequences, FiniteSets, TLC

(***************************************************************************)
(* Values                                                                  *)
(***************************************************************************)
\* JavaScript's undefined and null (BattleState.winner is string | null | undefined).
UNDEFINED == "undefined"
NULL == "null"

\* The user id of the tab under study (getUserSessionId: generated once per tab).
LocalUser == "me"

\* startNewBattle always passes this battle id to START_BATTLE.
RandomBattleId == "randomBattleId"

\* The room id of the session; useP2P stamps it on every vote it receives.
RoomId == "battle_1_vs_2"

\* The two competing items.
Items == <<"A", "B">>

ItemSet == {Items[i] : i \in 1..Len(Items)}

\* The users, items and battle ids of the votes that reach the reconciler, by
\* vote number: u2 votes twice under two ids, the second vote is an echo of the
\* local user, the fourth is another peer's own vote as a SYNC_RESPONSE carries it.
RemoteUsers == <<"u2", LocalUser, "u2", "u3">>

RemoteItems == <<"A", "B", "B", "A">>

RemoteBattles == <<RoomId, RoomId, RoomId, RandomBattleId>>

\* Number of distinct remote votes the environment can deliver.
NumRemoteVotes == 3

\* Longest batch of a SYNC_RESPONSE.
MaxBatch == 2

\* SpecReceive: longest sequence of RECEIVE_VOTE dispatches of a run.
MaxLog == 3

\* SpecNet: number of peers (tabs on distinct devices) of the room.
NumPeers == 2

Peers == 1..NumPeers

\* SpecLedger: tabs of one browser sharing localStorage, and the last clock value.
\* The clock counts hours.
NumTabs == 2

\* SpecIds: the greatest Pokemon index.
MaxIndex == 12

\* SpecService: the number of initialize() calls and of heartbeats followed.
MaxSessions == 2

MaxBeats == 1

\* config.reconnectAttempts and config.reconnectDelay of P2PService.
reconnectAttempts == 3

reconnectDelay == 2000

\* maxAttempts of createPeer.
maxAttempts == 3

Tabs == 1..NumTabs

MaxTime == 25

\* VOTE_EXPIRY_HOURS of votingHelpers.ts.
VOTE_EXPIRY_HOURS == 24

\* SpecWinner: item names of a results object and the greatest count.
WinnerNames == {"A", "B", "C"}

MaxCount == 5

\* The i-th remote vote. Vote ids are unique (generateMessageId / CAST_VOTE draw
\* them from the clock and a random string), so an id determines its vote.
VoteOf(i) ==
  [ id |-> <<"msg", i>>,
    userId |-> RemoteUsers[((i - 1) % Len(RemoteUsers)) + 1],
    pokemonName |-> RemoteItems[((i - 1) % Len(RemoteItems)) + 1],
    battleId |-> RemoteBattles[((i - 1) % Len(RemoteBattles)) + 1] ]

RemoteVotes == {VoteOf(i) : i \in 1..NumRemoteVotes}

RECURSIVE SeqsUpTo(_, _)
\* All sequences over S of length at most n.
SeqsUpTo(S, n) ==
  IF n = 0 THEN {<<>>}
  ELSE LET shorter == SeqsUpTo(S, n - 1)
       IN shorter \cup {Append(q, x) : q \in shorter, x \in S}

Range(q) == {q[i] : i \in 1..Len(q)}

\* The vote lists a peer can hold and send: no vote id occurs twice.
Batches ==
  {b \in SeqsUpTo(RemoteVotes, MaxBatch) :
     \A i, j \in 1..Len(b) : i # j => b[i].id # b[j].id}

(***************************************************************************)
(* utils/votingHelpers.ts                                                  *)
(***************************************************************************)
\* Index of the key `name` in the results object, 0 when absent. The results
\* object is the sequence of its entries in key insertion order (Object.keys).
KeyIndex(results, name) ==
  IF \E k \in 1..Len(results) : results[k].name = name
  THEN CHOOSE k \in 1..Len(results) : results[k].name = name
  ELSE 0

RECURSIVE countLoop(_, _, _)
\* votes.forEach of calculateVoteResults: create the entry, count++, push.
countLoop(votes, i, results) ==
  IF i > Len(votes) THEN results
  ELSE LET name == votes[i].pokemonName
           idx == KeyIndex(results, name)
           r1 == IF idx = 0
                 THEN Append(results,
                        [name |-> name, count |-> 0,
                         percentage |-> [num |-> 0, den |-> 1], votes |-> <<>>])
                 ELSE results
           k == IF idx = 0 THEN Len(r1) ELSE idx
       IN countLoop(votes, i + 1,
            [r1 EXCEPT ![k].count = @ + 1, ![k].votes = Append(@, votes[i])])

\* calculateVoteResults that divides by the number of items voted for.
calculateVoteResultsPerItem(votes) ==
  LET counted == countLoop(votes, 1, <<>>)
  IN [k \in 1..Len(counted) |->
        [counted[k] EXCEPT !.percentage =
           [num |-> counted[k].count * 100, den |-> Len(counted)]]]

\* percentage = count / totalVotes * 100, kept as the exact fraction num/den.
calculateVoteResults(votes) ==
  LET counted == countLoop(votes, 1, <<>>)
      totalVotes == Len(votes)
  IN [k \in 1..Len(counted) |->
        [counted[k] EXCEPT !.percentage =
           IF totalVotes > 0
           THEN [num |-> counted[k].count * 100, den |-> totalVotes]
           ELSE [num |-> 0, den |-> 1]]]

RECURSIVE winnerLoop(_, _, _, _, _)
\* The for loop of determineWinner and its return statement.
winnerLoop(results, i, winner, maxVotes, isTie) ==
  IF i > Len(results)
  THEN IF isTie THEN NULL ELSE IF maxVotes > 0 THEN winner ELSE NULL
  ELSE LET currentVotes == results[i].count
       IN IF currentVotes > maxVotes
          THEN winnerLoop(results, i + 1, results[i].name, currentVotes, FALSE)
          ELSE IF currentVotes = maxVotes /\ maxVotes > 0
               THEN winnerLoop(results, i + 1, winner, maxVotes, TRUE)
               ELSE winnerLoop(results, i + 1, winner, maxVotes, isTie)

RECURSIVE winnerLoopStickyTie(_, _, _, _, _)
\* determineWinner that never clears isTie when a greater count follows a tie.
winnerLoopStickyTie(results, i, winner, maxVotes, isTie) ==
  IF i > Len(results)
  THEN IF isTie THEN NULL ELSE IF maxVotes > 0 THEN winner ELSE NULL
  ELSE LET currentVotes == results[i].count
       IN IF currentVotes > maxVotes
          THEN winnerLoopStickyTie(results, i + 1, results[i].name, currentVotes, isTie)
          ELSE IF currentVotes = maxVotes /\ maxVotes > 0
               THEN winnerLoopStickyTie(results, i + 1, winner, maxVotes, TRUE)
               ELSE winnerLoopStickyTie(results, i + 1, winner, maxVotes, isTie)

determineWinnerStickyTie(results) ==
  IF Len(results) = 0 THEN NULL
  ELSE winnerLoopStickyTie(results, 2, results[1].name, results[1].count, FALSE)

RECURSIVE winnerLoopLastMax(_, _, _, _, _)
\* determineWinner with >= for >: the last item of the greatest count wins.
winnerLoopLastMax(results, i, winner, maxVotes, isTie) ==
  IF i > Len(results)
  THEN IF isTie THEN NULL ELSE IF maxVotes > 0 THEN winner ELSE NULL
  ELSE LET currentVotes == results[i].count
       IN IF currentVotes >= maxVotes
          THEN winnerLoopLastMax(results, i + 1, results[i].name, currentVotes, FALSE)
          ELSE winnerLoopLastMax(results, i + 1, winner, maxVotes, isTie)

determineWinnerLastMax(results) ==
  IF Len(results) = 0 THEN NULL
  ELSE winnerLoopLastMax(results, 2, results[1].name, results[1].count, FALSE)

determineWinner(results) ==
  IF Len(results) = 0 THEN NULL
  ELSE winnerLoop(results, 2, results[1].name, results[1].count, FALSE)

hasUserVoted(votes, userId, battleId) ==
  \E i \in 1..Len(votes) : votes[i].userId = userId /\ votes[i].battleId = battleId

\* votes.find: the first matching vote, as a list of at most one element.
getUserVote(votes, userId, battleId) ==
  IF hasUserVoted(votes, userId, battleId)
  THEN LET i == CHOOSE i \in 1..Len(votes) :
                  /\ votes[i].userId = userId /\ votes[i].battleId = battleId
                  /\ \A j \in 1..(i - 1) :
                       ~(votes[j].userId = userId /\ votes[j].battleId = battleId)
       IN <<votes[i]>>
  ELSE <<>>

isDuplicateVote(newVote, existingVotes) ==
  \E i \in 1..Len(existingVotes) :
     /\ existingVotes[i].userId = newVote.userId
     /\ existingVotes[i].battleId = newVote.battleId

(***************************************************************************)
(* context/BattleContext.tsx: the battle reducer                           *)
(***************************************************************************)
initialState ==
  [ battleId |-> "", pokemon1Name |-> "", pokemon2Name |-> "",
    votes |-> <<>>, results |-> <<>>, hasUserVoted |-> FALSE,
    userVote |-> <<>>, winner |-> UNDEFINED, totalVotes |-> 0,
    isActive |-> FALSE ]

StartBattleReducer(s, pokemon1, pokemon2, battleId) ==
  [initialState EXCEPT !.battleId = battleId, !.pokemon1Name = pokemon1,
                       !.pokemon2Name = pokemon2, !.isActive = TRUE]

\* CAST_VOTE without the hasUserVoted check.
CastVoteNoCheck(s, userId, pokemonName, newId) ==
  LET newVote == [id |-> newId, userId |-> userId,
                  pokemonName |-> pokemonName, battleId |-> s.battleId]
      updatedVotes == Append(s.votes, newVote)
      results == calculateVoteResults(updatedVotes)
  IN [s EXCEPT !.votes = updatedVotes, !.results = results,
               !.winner = determineWinner(results),
               !.totalVotes = Len(updatedVotes),
               !.hasUserVoted = TRUE, !.userVote = <<newVote>>]

CastVoteReducer(s, userId, pokemonName, newId) ==
  IF hasUserVoted(s.votes, userId, s.battleId) THEN s
  ELSE LET newVote == [id |-> newId, userId |-> userId,
                       pokemonName |-> pokemonName, battleId |-> s.battleId]
           updatedVotes == Append(s.votes, newVote)
           results == calculateVoteResults(updatedVotes)
       IN [s EXCEPT !.votes = updatedVotes, !.results = results,
                    !.winner = determineWinner(results),
                    !.totalVotes = Len(updatedVotes),
                    !.hasUserVoted = TRUE, !.userVote = <<newVote>>]

\* RECEIVE_VOTE that compares the id with the last vote only.
ReceiveVoteLastOnly(s, userId, vote) ==
  IF vote.userId = userId THEN s
  ELSE IF Len(s.votes) > 0 /\ s.votes[Len(s.votes)].id = vote.id THEN s
  ELSE LET updatedVotes == Append(s.votes, vote)
           results == calculateVoteResults(updatedVotes)
       IN [s EXCEPT !.votes = updatedVotes, !.results = results,
                    !.winner = determineWinner(results),
                    !.totalVotes = Len(updatedVotes)]

ReceiveVoteReducer(s, userId, vote) ==
  IF vote.userId = userId THEN s
  ELSE IF \E i \in 1..Len(s.votes) : s.votes[i].id = vote.id THEN s
  ELSE LET updatedVotes == Append(s.votes, vote)
           results == calculateVoteResults(updatedVotes)
       IN [s EXCEPT !.votes = updatedVotes, !.results = results,
                    !.winner = determineWinner(results),
                    !.totalVotes = Len(updatedVotes)]

ResetBattleReducer(s) == initialState

SyncVotesReducer(s, incomingVotes) ==
  LET existingVoteIds == {s.votes[i].id : i \in 1..Len(s.votes)}
      newVotes == SelectSeq(incomingVotes, LAMBDA vote : vote.id \notin existingVoteIds)
      allVotes == s.votes \o newVotes
      results == calculateVoteResults(allVotes)
  IN [s EXCEPT !.votes = allVotes, !.results = results,
               !.winner = determineWinner(results),
               !.totalVotes = Len(allVotes)]

SetUserVoteStatusReducer(s, userId) ==
  [s EXCEPT !.hasUserVoted = hasUserVoted(s.votes, userId, s.battleId),
            !.userVote = getUserVote(s.votes, userId, s.battleId)]

\* The provider's effect on [state.votes, state.battleId]: once a dispatch has
\* produced a new state with a battle id, SET_USER_VOTE_STATUS is dispatched.
VoteStatusEffect(old, new, userId) ==
  IF new # old /\ new.battleId # "" THEN SetUserVoteStatusReducer(new, userId)
  ELSE new

\* A vote id CAST_VOTE has not used yet in this vote set.
FreshVoteId(s) ==
  LET used == {s.votes[i].id : i \in 1..Len(s.votes)}
      n == CHOOSE n \in 1..(Len(s.votes) + 1) : <<"vote", n>> \notin used
  IN <<"vote", n>>

(***************************************************************************)
(* components/BattleArena.tsx: the sync handler                            *)
(***************************************************************************)
\* onSyncReceived without the "no votes yet" test.
OnSyncReceivedAlways(s, votes) ==
  IF Len(votes) > 0 THEN SyncVotesReducer(s, votes) ELSE s

\* The onSyncReceived handler: syncVotes only when the list is non-empty and
\* getCurrentVotes() is empty.
OnSyncReceivedHandler(s, votes) ==
  IF Len(votes) > 0
  THEN IF Len(s.votes) = 0 THEN SyncVotesReducer(s, votes) ELSE s
  ELSE s

(***************************************************************************)
(* State                                                                   *)
(***************************************************************************)
VARIABLES
  state,      \* the BattleState held by the provider's useReducer
  prev,       \* the BattleState before the last dispatch
  op,         \* the last dispatch: its type and payload
  dwResults,  \* SpecWinner: the results object handed to determineWinner
  dwWinner,   \* SpecWinner: what determineWinner returned ("pending" before)
  baseState,  \* SpecReceive: the BattleState both runs start from
  stateA,     \* SpecReceive: the BattleState of run A
  logA,       \* SpecReceive: the votes dispatched as RECEIVE_VOTE in run A
  stateB,     \* SpecReceive: the BattleState of run B
  logB,       \* SpecReceive: the votes dispatched as RECEIVE_VOTE in run B
  netStatus,  \* SpecNet: P2PService.state.status of each peer
  conns,      \* SpecNet: P2PService.state.connectedPeers of each peer
  uiPeers,    \* SpecNet: connectedPeersCount of each peer's useP2P state
  nstate,     \* SpecNet: the BattleState of each peer
  hasRequestedSync,  \* SpecNet: BattleArena's hasRequestedSync ref of each peer
  hasThisPeerVoted,  \* SpecNet: BattleArena's hasThisPeerVoted state of each peer
  inflight,   \* SpecNet: messages sent over a connection and not yet received
  castLog,    \* SpecNet: every vote cast in the room (peer and item)
  now,        \* SpecLedger: Date.now(), in hours
  storage,    \* SpecLedger: the list stored under BROWSER_VOTES_KEY
  loaded,     \* SpecLedger: whether the tab has loaded its two Pokemon
  battleParams, \* SpecLedger: useBattleData's battleParams of each tab
  tabRoom,    \* SpecLedger: the room id of the tab's P2P session
  browserVoteStatus, \* SpecLedger: BattleArena's browserVoteStatus state of each tab
  tabVoted,   \* SpecLedger: BattleArena's hasThisPeerVoted state of each tab
  tstate,     \* SpecLedger: the BattleState of each tab
  toasts,     \* SpecLedger: number of "already voted" warnings each tab has shown
  lastCast,   \* SpecLedger: tab and time of the last vote cast in each battle
  idArgs,     \* SpecIds: the two Pokemon indexes
  idRoom,     \* SpecIds: generateRoomId of the indexes in both orders
  idBattle,   \* SpecIds: generateBattleId of the indexes in both orders
  svc,        \* SpecService: P2PService's state, peer and heartbeatInterval fields
  timers,     \* SpecService: the interval timers that are running
  conts,      \* SpecService: the initialize() calls that are awaiting
  handshakes, \* SpecService: the connections whose 'open' is pending
  reconnects, \* SpecService: the delays of the reconnection timeouts that are pending
  rejected,   \* SpecService: the inbound connections closed by handleIncomingConnection
  priorRoom,  \* SpecService: the room id of the session before the last initialize()
  gen,        \* SpecService: the number of initialize() calls so far
  torn,       \* SpecService: disconnect() was called and initialize() not since
  beats,      \* SpecService: the number of heartbeats broadcast
  lastSent,   \* SpecBroadcast: the last message P2PService sent and to whom
  bstate,     \* SpecRooms: the BattleState of the tab that owns the service
  eventHandlers, \* SpecHandlers: P2PService.eventHandlers
  registered, \* SpecHandlers: the callback last passed to each setter
  invoked,    \* SpecHandlers: the last event and the callbacks it called
  effectRuns, \* SpecHandlers: how often each handler effect has run
  disk,       \* SpecStorage: what localStorage holds under BROWSER_VOTES_KEY
  diskNow,    \* SpecStorage: Date.now(), in hours
  lastCall    \* SpecStorage: the last call of a ledger function and its outcome

reducerVars == <<state, prev, op>>

winnerVars == <<dwResults, dwWinner>>

receiveVars == <<baseState, stateA, logA, stateB, logB>>

netVars == <<netStatus, conns, uiPeers, nstate, hasRequestedSync, hasThisPeerVoted,
             inflight, castLog>>

ledgerVars == <<now, storage, loaded, battleParams, tabRoom, browserVoteStatus,
                tabVoted, tstate, toasts, lastCast>>

idVars == <<idArgs, idRoom, idBattle>>

svcVars == <<svc, timers, conts, handshakes, reconnects, rejected, priorRoom, gen, torn,
             beats>>

handlerVars == <<eventHandlers, registered, invoked, effectRuns>>

diskVars == <<disk, diskNow, lastCall>>

\* The variables of SpecBroadcast, SpecRooms, SpecHandlers and SpecStorage.
msgVars == <<lastSent, bstate, handlerVars, diskVars>>

vars == <<reducerVars, winnerVars, receiveVars, netVars, ledgerVars, idVars, svcVars,
          msgVars>>

NoOp == [type |-> "INIT", item |-> "", votes |-> <<>>]

\* START_BATTLE has run in every tab once its two Pokemon are loaded.
StartedState ==
  VoteStatusEffect(initialState,
    StartBattleReducer(initialState, Items[1], Items[2], RandomBattleId), LocalUser)

\* The variables of a specification that does not use them stay at these values.
IdsIdle ==
  /\ idArgs = <<1, 1>>
  /\ idRoom = <<>>
  /\ idBattle = <<>>

\* P2PService as constructed: offline, no room, no peer, no connections.
initialService ==
  [status |-> "offline", roomId |-> <<>>, peerId |-> <<>>, peer |-> 0,
   connectedPeers |-> {}, connectionAttempts |-> 0, heartbeatInterval |-> 0,
   statusChanged |-> "none", links |-> {}, lastSeen |-> <<>>]

ServiceIdle ==
  /\ svc = initialService
  /\ timers = {}
  /\ conts = {}
  /\ handshakes = {}
  /\ reconnects = <<>>
  /\ rejected = {}
  /\ priorRoom = <<>>
  /\ gen = 0
  /\ torn = FALSE
  /\ beats = 0

\* Nothing sent yet; the battle of the tab is started.
NoBroadcast ==
  [message |-> [type |-> "NONE"], attempted |-> {}, delivered |-> {}, raised |-> FALSE]

\* The events of P2PEventHandlers.
Events ==
  {"onVoteReceived", "onPeerConnected", "onPeerDisconnected",
   "onConnectionStatusChanged", "onError", "onSyncReceived"}

\* The value of an eventHandlers property that is not set.
noCallback == [by |-> "none", run |-> 0]

\* eventHandlers = {}: no property is set.
noHandlers == [event \in Events |-> noCallback]

HandlersIdle ==
  /\ eventHandlers = noHandlers
  /\ registered = noHandlers
  /\ invoked = [event |-> "none", called |-> <<>>]
  /\ effectRuns = [useP2P |-> 0, BattleArena |-> 0]

\* localStorage without the item, and before any call.
noItem == [item |-> "none", votes |-> <<>>]

noCall ==
  [fn |-> "none", time |-> 0, voted |-> FALSE, vote |-> <<>>, threw |-> FALSE,
   readFailed |-> FALSE, writeFailed |-> FALSE,
   before |-> noItem, afterRead |-> noItem, after |-> noItem]

DiskIdle ==
  /\ disk = noItem
  /\ diskNow = 0
  /\ lastCall = noCall

MsgIdle ==
  /\ lastSent = NoBroadcast
  /\ bstate = StartedState
  /\ HandlersIdle
  /\ DiskIdle

LedgerIdle ==
  /\ now = 0
  /\ storage = <<>>
  /\ loaded = [t \in Tabs |-> FALSE]
  /\ battleParams = [t \in Tabs |-> <<1, 2>>]
  /\ tabRoom = [t \in Tabs |-> ""]
  /\ browserVoteStatus = [t \in Tabs |-> [hasVoted |-> FALSE, pokemonName |-> UNDEFINED]]
  /\ tabVoted = [t \in Tabs |-> FALSE]
  /\ tstate = [t \in Tabs |-> initialState]
  /\ toasts = [t \in Tabs |-> 0]
  /\ lastCast = {}

NetIdle ==
  /\ netStatus = [p \in Peers |-> "discovering"]
  /\ conns = [p \in Peers |-> {}]
  /\ uiPeers = [p \in Peers |-> 0]
  /\ nstate = [p \in Peers |-> StartedState]
  /\ hasRequestedSync = [p \in Peers |-> FALSE]
  /\ hasThisPeerVoted = [p \in Peers |-> FALSE]
  /\ inflight = {}
  /\ castLog = {}

ReducerIdle == state = initialState /\ prev = initialState /\ op = NoOp

WinnerIdle == dwResults = <<>> /\ dwWinner = "idle"

ReceiveIdle ==
  /\ baseState = initialState
  /\ stateA = initialState /\ logA = <<>>
  /\ stateB = initialState /\ logB = <<>>

(***************************************************************************)
(* Spec: one reconciler under every interleaving of its dispatches         *)
(***************************************************************************)
Init ==
  /\ state = initialState
  /\ prev = initialState
  /\ op = NoOp
  /\ WinnerIdle
  /\ ReceiveIdle
  /\ NetIdle
  /\ LedgerIdle
  /\ IdsIdle
  /\ ServiceIdle
  /\ MsgIdle

\* BattleArena's "start battle when Pokemon are loaded" effect.
StartBattle ==
  /\ ~state.isActive
  /\ state' = VoteStatusEffect(state,
                StartBattleReducer(state, Items[1], Items[2], RandomBattleId),
                LocalUser)
  /\ prev' = state
  /\ op' = [type |-> "START_BATTLE", item |-> "", votes |-> <<>>]
  /\ UNCHANGED <<winnerVars, receiveVars, netVars, ledgerVars, idVars, svcVars, msgVars>>

\* castVote(pokemonName): dispatch CAST_VOTE.
CastVote(pokemonName) ==
  /\ state' = VoteStatusEffect(state,
                CastVoteReducer(state, LocalUser, pokemonName, FreshVoteId(state)),
                LocalUser)
  /\ prev' = state
  /\ op' = [type |-> "CAST_VOTE", item |-> pokemonName, votes |-> <<>>]
  /\ UNCHANGED <<winnerVars, receiveVars, netVars, ledgerVars, idVars, svcVars, msgVars>>

\* receiveVote(vote): dispatch RECEIVE_VOTE (useP2P's onVoteReceived).
ReceiveVote(vote) ==
  /\ state' = VoteStatusEffect(state,
                ReceiveVoteReducer(state, LocalUser, vote), LocalUser)
  /\ prev' = state
  /\ op' = [type |-> "RECEIVE_VOTE", item |-> "", votes |-> <<vote>>]
  /\ UNCHANGED <<winnerVars, receiveVars, netVars, ledgerVars, idVars, svcVars, msgVars>>

\* A SYNC_RESPONSE payload reaches BattleArena's onSyncReceived handler.
SyncReceived(votes) ==
  /\ state' = VoteStatusEffect(state, OnSyncReceivedHandler(state, votes), LocalUser)
  /\ prev' = state
  /\ op' = [type |-> "SYNC_RESPONSE", item |-> "", votes |-> votes]
  /\ UNCHANGED <<winnerVars, receiveVars, netVars, ledgerVars, idVars, svcVars, msgVars>>

\* resetBattle(): dispatch RESET_BATTLE (handleNewBattle).
ResetBattle ==
  /\ state' = VoteStatusEffect(state, ResetBattleReducer(state), LocalUser)
  /\ prev' = state
  /\ op' = [type |-> "RESET_BATTLE", item |-> "", votes |-> <<>>]
  /\ UNCHANGED <<winnerVars, receiveVars, netVars, ledgerVars, idVars, svcVars, msgVars>>

Next ==
  \/ StartBattle
  \/ \E pokemonName \in ItemSet : CastVote(pokemonName)
  \/ \E vote \in RemoteVotes : ReceiveVote(vote)
  \/ \E votes \in Batches : SyncReceived(votes)
  \/ ResetBattle

Spec == Init /\ [][Next]_vars

(***************************************************************************)
(* Properties of the reconciler                                            *)
(***************************************************************************)
RECURSIVE FoldReceive(_, _, _)
\* RECEIVE_VOTE applied to each vote of `votes` from position i on, in order.
FoldReceive(s, votes, i) ==
  IF i > Len(votes) THEN s
  ELSE FoldReceive(ReceiveVoteReducer(s, LocalUser, votes[i]), votes, i + 1)

\* C2: the vote set holds at most one vote per (userId, battleId) pair.
C2_OneVotePerUserAndBattle ==
  \A i, j \in 1..Len(state.votes) :
     i # j => ~(/\ state.votes[i].userId = state.votes[j].userId
                /\ state.votes[i].battleId = state.votes[j].battleId)

\* C3: CAST_VOTE dispatched while the local user already has a vote for the
\* current battle returns the state unchanged (votes, results, winner, totalVotes).
C3_CastVoteNoOpWhenVoted ==
  (op.type = "CAST_VOTE" /\ hasUserVoted(prev.votes, LocalUser, prev.battleId))
    => /\ state.votes = prev.votes
       /\ state.results = prev.results
       /\ state.winner = prev.winner
       /\ state.totalVotes = prev.totalVotes

C3_Witness ==
  /\ op.type = "CAST_VOTE"
  /\ hasUserVoted(prev.votes, LocalUser, prev.battleId)
  /\ Len(prev.votes) >= 2

C8_SyncEqualsReceiveEach ==
  (op.type = "SYNC_RESPONSE" /\ Len(prev.votes) = 0 /\ Len(op.votes) > 0)
    => state.votes = FoldReceive(prev, op.votes, 1).votes

(***************************************************************************)
(* SpecWinner: determineWinner on every small results object               *)
(***************************************************************************)
\* Results objects: distinct keys in any insertion order, any counts.
ResultsInputs ==
  {r \in SeqsUpTo([name : WinnerNames, count : 0..MaxCount], Cardinality(WinnerNames)) :
     \A i, j \in 1..Len(r) : i # j => r[i].name # r[j].name}

InitWinner ==
  /\ dwResults \in ResultsInputs
  /\ dwWinner = "pending"
  /\ ReducerIdle
  /\ ReceiveIdle
  /\ NetIdle
  /\ LedgerIdle
  /\ IdsIdle
  /\ ServiceIdle
  /\ MsgIdle

CallDetermineWinner ==
  /\ dwWinner = "pending"
  /\ dwWinner' = determineWinner(dwResults)
  /\ UNCHANGED <<dwResults, reducerVars, receiveVars, netVars, ledgerVars, idVars, svcVars, msgVars>>

NextWinner == CallDetermineWinner

SpecWinner == InitWinner /\ [][NextWinner]_vars

\* The results object with the given keys and counts, in that key order.
ResultsOf(names, counts) ==
  [k \in 1..Len(names) |-> [name |-> names[k], count |-> counts[k]]]

\* X has a count above 0 and strictly above the count of every other item.
StrictlyGreatest(results, k) ==
  /\ results[k].count > 0
  /\ \A j \in 1..Len(results) : j # k => results[k].count > results[j].count

\* C4: determineWinner returns X exactly when X's count is strictly greater than
\* every other item's count and above 0, and null otherwise (a shared greatest
\* count, or no votes); {A:3,B:3} and {A:0,B:0} give null, {A:5,B:2} and {A:1} give A.
C4_WinnerIsStrictMaximum ==
  dwWinner # "pending" =>
    /\ \A k \in 1..Len(dwResults) :
         (dwWinner = dwResults[k].name) <=> StrictlyGreatest(dwResults, k)
    /\ (dwWinner = NULL) <=>
         ~(\E k \in 1..Len(dwResults) : StrictlyGreatest(dwResults, k))
    /\ dwResults \in {ResultsOf(<<"A", "B">>, <<3, 3>>), ResultsOf(<<"B", "A">>, <<3, 3>>),
                      ResultsOf(<<"A", "B">>, <<0, 0>>), ResultsOf(<<"B", "A">>, <<0, 0>>)}
         => dwWinner = NULL
    /\ dwResults \in {ResultsOf(<<"A", "B">>, <<5, 2>>), ResultsOf(<<"B", "A">>, <<2, 5>>),
                      ResultsOf(<<"A">>, <<1>>)}
         => dwWinner = "A"

\* A tie of the first two items is overtaken by the third.
C4_Witness ==
  /\ dwResults = ResultsOf(<<"A", "B", "C">>, <<3, 3, 5>>)
  /\ dwWinner = "C"

(***************************************************************************)
(* SpecReceive: two runs of RECEIVE_VOTE dispatches from one state         *)
(***************************************************************************)
\* A started battle; with the local vote cast; after a late-joiner sync.
BaseStates ==
  LET started == VoteStatusEffect(initialState,
                   StartBattleReducer(initialState, Items[1], Items[2], RandomBattleId),
                   LocalUser)
  IN { started,
       VoteStatusEffect(started,
         CastVoteReducer(started, LocalUser, Items[1], FreshVoteId(started)), LocalUser),
       VoteStatusEffect(started,
         OnSyncReceivedHandler(started, <<VoteOf(1)>>), LocalUser) }

InitReceive ==
  /\ baseState \in BaseStates
  /\ stateA = baseState /\ logA = <<>>
  /\ stateB = baseState /\ logB = <<>>
  /\ ReducerIdle
  /\ WinnerIdle
  /\ NetIdle
  /\ LedgerIdle
  /\ IdsIdle
  /\ ServiceIdle
  /\ MsgIdle

FeedA(vote) ==
  /\ Len(logA) < MaxLog
  /\ stateA' = VoteStatusEffect(stateA,
                 ReceiveVoteReducer(stateA, LocalUser, vote), LocalUser)
  /\ logA' = Append(logA, vote)
  /\ UNCHANGED <<baseState, stateB, logB, reducerVars, winnerVars, netVars, ledgerVars, idVars, svcVars, msgVars>>

FeedB(vote) ==
  /\ Len(logB) < MaxLog
  /\ stateB' = VoteStatusEffect(stateB,
                 ReceiveVoteReducer(stateB, LocalUser, vote), LocalUser)
  /\ logB' = Append(logB, vote)
  /\ UNCHANGED <<baseState, stateA, logA, reducerVars, winnerVars, netVars, ledgerVars, idVars, svcVars, msgVars>>

NextReceive ==
  \/ \E vote \in RemoteVotes : FeedA(vote)
  \/ \E vote \in RemoteVotes : FeedB(vote)

SpecReceive == InitReceive /\ [][NextReceive]_vars

RECURSIVE DedupNonSelf(_, _)
\* The subsequence of log[1..n] without the votes of the local user and without
\* the votes whose id occurred earlier in the log.
DedupNonSelf(log, n) ==
  IF n = 0 THEN <<>>
  ELSE LET rest == DedupNonSelf(log, n - 1)
       IN IF \/ log[n].userId = LocalUser
             \/ \E j \in 1..(n - 1) : log[j].id = log[n].id
          THEN rest
          ELSE Append(rest, log[n])

\* The count of an item in a BattleState's results (0 without an entry).
CountFor(s, name) ==
  IF KeyIndex(s.results, name) = 0 THEN 0
  ELSE s.results[KeyIndex(s.results, name)].count

\* C1: the vote set and tally after a sequence of RECEIVE_VOTE dispatches equal
\* those after dispatching only its deduplicated, non-self subsequence.
C1_ReceiveEqualsDedupNonSelf ==
  LET reference == FoldReceive(baseState, DedupNonSelf(logA, Len(logA)), 1)
  IN /\ stateA.votes = reference.votes
     /\ stateA.results = reference.results
     /\ stateA.totalVotes = reference.totalVotes

C1_Witness ==
  /\ \E i, j \in 1..Len(logA) : i < j /\ logA[i].id = logA[j].id
  /\ \E k \in 1..Len(logA) : logA[k].userId = LocalUser
  /\ Len(stateA.votes) > Len(baseState.votes)

\* C9: two runs that received the same set of votes, in any order and with any
\* repetition, agree on the per-item counts, totalVotes and the winner.
C9_ReceiveOrderIndependent ==
  Range(logA) = Range(logB) =>
    /\ \A name \in ItemSet : CountFor(stateA, name) = CountFor(stateB, name)
    /\ stateA.totalVotes = stateB.totalVotes
    /\ stateA.winner = stateB.winner

C9_Witness ==
  /\ Range(logA) = Range(logB)
  /\ Len(logA) # Len(logB)
  /\ stateA.votes # stateB.votes
  /\ Len(stateA.votes) >= Len(baseState.votes) + 2

(***************************************************************************)
(* SpecNet: the peers of one room exchanging votes and sync messages       *)
(***************************************************************************)
\* getUserSessionId() of a peer's tab and the peer id of its P2PService.
UserIdOf(p) == <<"session", p>>

PeerIdOf(p) == <<RoomId, p>>

\* A message on the connection from -> to (P2PMessage; VOTE carries `vote`,
\* SYNC_REQUEST and SYNC_RESPONSE carry `votes`).
Message(type, from, to, vote, votes) ==
  [type |-> type, from |-> from, to |-> to, vote |-> vote, votes |-> votes,
   battleId |-> RoomId]

\* P2PService.sendStateToPeer(peerId, votes): a SYNC_RESPONSE with the votes,
\* sent to that peer.
sendStateToPeer(from, to, votes) ==
  {Message("SYNC_RESPONSE", from, to, <<>>, votes)}

\* BattleArena's onPeerConnected handler at peer p for the new peer q.
OnPeerConnected(p, q, s) ==
  IF Len(s.votes) > 0 THEN sendStateToPeer(p, q, s.votes) ELSE {}

\* P2PService.broadcastMessage: one send per connected peer.
broadcastMessage(type, from, vote, votes) ==
  {Message(type, from, q, vote, votes) : q \in conns[from]}

\* P2PService.handleSyncRequest: the SYNC_RESPONSE it sends to the requester.
handleSyncRequest(p, fromPeer) ==
  IF fromPeer \in conns[p]
  THEN {Message("SYNC_RESPONSE", p, fromPeer, <<>>, <<>>)}
  ELSE {}

\* useP2P's onVoteReceived: the Vote built from a VOTE payload.
VoteFromPayload(payload) ==
  [id |-> payload.voteId, userId |-> payload.userId,
   pokemonName |-> payload.pokemonName, battleId |-> RoomId]

InitNet ==
  /\ NetIdle
  /\ LedgerIdle
  /\ ReducerIdle
  /\ WinnerIdle
  /\ ReceiveIdle
  /\ IdsIdle
  /\ ServiceIdle
  /\ MsgIdle

\* p2pService.initialize of peer p completes: the endpoint is open, discovery
\* has connected p with every peer of the room, the status is connected.
Initialize(p) ==
  /\ netStatus[p] = "discovering"
  /\ LET found == {q \in Peers : netStatus[q] = "connected"}
     IN /\ conns' = [q \in Peers |->
                       IF q = p THEN found
                       ELSE IF q \in found THEN conns[q] \cup {p} ELSE conns[q]]
        /\ uiPeers' = [uiPeers EXCEPT ![p] = Cardinality(found)]
        /\ inflight' = inflight
              \cup UNION {OnPeerConnected(q, p, nstate[q]) : q \in found}
              \cup UNION {OnPeerConnected(p, q, nstate[p]) : q \in found}
  /\ netStatus' = [netStatus EXCEPT ![p] = "connected"]
  /\ UNCHANGED <<nstate, hasRequestedSync, hasThisPeerVoted, castLog>>
  /\ UNCHANGED <<reducerVars, winnerVars, receiveVars, ledgerVars, idVars, svcVars, msgVars>>

\* p2pService.initialize of peer p gives up on the transport: createPeer
\* rejects and enableLocalFallbackMode sets the status error.
InitializeFails(p) ==
  /\ netStatus[p] = "discovering"
  /\ netStatus' = [netStatus EXCEPT ![p] = "error"]
  /\ UNCHANGED <<conns, uiPeers, nstate, hasRequestedSync, hasThisPeerVoted, inflight,
                 castLog>>
  /\ UNCHANGED <<reducerVars, winnerVars, receiveVars, ledgerVars, idVars, svcVars, msgVars>>

\* BattleArena's "request sync when P2P connects and we have peers" effect.
RequestSync(p) ==
  /\ netStatus[p] = "connected"
  /\ uiPeers[p] > 0
  /\ ~hasRequestedSync[p]
  /\ inflight' = inflight \cup broadcastMessage("SYNC_REQUEST", p, <<>>, <<>>)
  /\ hasRequestedSync' = [hasRequestedSync EXCEPT ![p] = TRUE]
  /\ UNCHANGED <<netStatus, conns, uiPeers, nstate, hasThisPeerVoted, castLog>>
  /\ UNCHANGED <<reducerVars, winnerVars, receiveVars, ledgerVars, idVars, svcVars, msgVars>>

\* PokemonCard's vote button: rendered while hasVoted (hasThisPeerVoted) is
\* false, disabled while isConnecting (p2pStatus !== "connected").
VoteButtonEnabled(p) == ~hasThisPeerVoted[p] /\ netStatus[p] = "connected"

\* A click on the vote button of peer p's tab: handleVote(pokemonName) does
\* castVote, then broadcastVote with connectionState.peerId as the user id and
\* a new message id as the vote id.
HandleVote(p, pokemonName) ==
  /\ VoteButtonEnabled(p)
  /\ ~hasThisPeerVoted[p]
  /\ nstate[p].isActive
  /\ nstate' = [nstate EXCEPT ![p] =
       VoteStatusEffect(nstate[p],
         CastVoteReducer(nstate[p], UserIdOf(p), pokemonName, <<"vote", p>>),
         UserIdOf(p))]
  /\ inflight' = inflight \cup
       (IF netStatus[p] = "connected"
        THEN broadcastMessage("VOTE", p,
               <<[pokemonName |-> pokemonName, userId |-> PeerIdOf(p),
                  voteId |-> <<"msg", p>>]>>, <<>>)
        ELSE {})
  /\ hasThisPeerVoted' = [hasThisPeerVoted EXCEPT ![p] = TRUE]
  /\ castLog' = castLog \cup {[peer |-> p, pokemonName |-> pokemonName]}
  /\ UNCHANGED <<netStatus, conns, uiPeers, hasRequestedSync>>
  /\ UNCHANGED <<reducerVars, winnerVars, receiveVars, ledgerVars, idVars, svcVars, msgVars>>

\* conn.on('data'): handleMessage(message, fromPeer) at the receiving peer. The
\* transport may deliver a message more than once (duplicate).
Deliver(m, duplicate) ==
  /\ m \in inflight
  /\ LET p == m.to
         sent == IF m.type = "SYNC_REQUEST" THEN handleSyncRequest(p, m.from) ELSE {}
     IN /\ nstate' = [nstate EXCEPT ![p] =
               IF m.type = "VOTE"
               THEN VoteStatusEffect(nstate[p],
                      ReceiveVoteReducer(nstate[p], UserIdOf(p), VoteFromPayload(m.vote[1])),
                      UserIdOf(p))
               ELSE IF m.type = "SYNC_RESPONSE"
               THEN VoteStatusEffect(nstate[p],
                      OnSyncReceivedHandler(nstate[p], m.votes), UserIdOf(p))
               ELSE nstate[p]]
        /\ inflight' = (IF duplicate THEN inflight ELSE inflight \ {m}) \cup sent
  /\ UNCHANGED <<netStatus, conns, uiPeers, hasRequestedSync, hasThisPeerVoted, castLog>>
  /\ UNCHANGED <<reducerVars, winnerVars, receiveVars, ledgerVars, idVars, svcVars, msgVars>>

NextNet ==
  \/ \E p \in Peers : Initialize(p)
  \/ \E p \in Peers : InitializeFails(p)
  \/ \E p \in Peers : RequestSync(p)
  \/ \E p \in Peers, pokemonName \in ItemSet : HandleVote(p, pokemonName)
  \/ \E m \in inflight, duplicate \in BOOLEAN : Deliver(m, duplicate)

SpecNet == InitNet /\ [][NextNet]_vars

\* Every peer is connected, its sync request is out and nothing is in flight.
Quiescent ==
  /\ \A p \in Peers : netStatus[p] = "connected"
  /\ \A p \in Peers : uiPeers[p] > 0 => hasRequestedSync[p]
  /\ inflight = {}

\* C5: once every sent message is delivered, every peer holds the same per-item
\* tally, the tally of all votes cast in the room.
C5_EventualConvergence ==
  Quiescent =>
    \A p \in Peers, name \in ItemSet :
       CountFor(nstate[p], name) =
         Cardinality({c \in castLog : c.pokemonName = name})

\* C6: handling a SYNC_REQUEST sends the requester, and nobody else, one
\* SYNC_RESPONSE whose votes are the responder's full current vote set.
C6_SyncResponseCarriesVoteSet ==
  [][\A m \in inflight :
       (m.type = "SYNC_REQUEST" /\ (Deliver(m, TRUE) \/ Deliver(m, FALSE)))
         => /\ Message("SYNC_RESPONSE", m.to, m.from, <<>>, nstate[m.to].votes)
                 \in inflight'
            /\ \A r \in inflight' \ inflight :
                 r.type = "SYNC_RESPONSE" /\ r.from = m.to /\ r.to = m.from]_vars

\* C22: in the fallback mode (status error) a user who has not voted can cast
\* a vote: it is applied to the local vote set and nothing is sent.
C22_VoteCastableInLocalOnlyMode ==
  \A p \in Peers :
    (netStatus[p] = "error" /\ ~hasThisPeerVoted[p] /\ nstate[p].isActive)
      => \A pokemonName \in ItemSet : ENABLED HandleVote(p, pokemonName)

\* C26: a VOTE message carries the vote id and the user id of the vote its
\* sender recorded locally.
C26_BroadcastVoteKeepsIdentity ==
  \A m \in inflight :
    m.type = "VOTE"
      => \E i \in 1..Len(nstate[m.from].votes) :
           /\ nstate[m.from].votes[i].id = m.vote[1].voteId
           /\ nstate[m.from].votes[i].userId = m.vote[1].userId

(***************************************************************************)
(* SpecLedger: the browser-wide vote ledger shared by the tabs of a browser *)
(***************************************************************************)
\* generateBattleId: the two indexes sorted numerically, `battle_${lo}_vs_${hi}`.
generateBattleId(pokemon1Index, pokemon2Index) ==
  IF pokemon1Index <= pokemon2Index
  THEN <<"battle", pokemon1Index, "vs", pokemon2Index>>
  ELSE <<"battle", pokemon2Index, "vs", pokemon1Index>>

\* The battle parameters a tab can show (URL parameters or a random battle).
LedgerParams == {<<1, 2>>, <<3, 1>>}

\* The battle id handleVote and the status effect compute for a tab.
BattleIdOf(params) == generateBattleId(params[1], params[2])

\* expiryMs of getBrowserVotes, in hours.
expiryMs == VOTE_EXPIRY_HOURS

\* getBrowserVotes keeping a record up to and including the expiry time.
getBrowserVotesInclusive(stored, time) ==
  SelectSeq(stored, LAMBDA vote : time - vote.timestamp <= expiryMs)

\* getBrowserVotes: the stored records younger than the expiry ...
getBrowserVotes(stored, time) ==
  SelectSeq(stored, LAMBDA vote : time - vote.timestamp < expiryMs)

\* A read that clears the stored list.
StorageClearedOnRead(stored, time) == <<>>

\* ... and the list it leaves in localStorage (saved back when records expired).
StorageAfterRead(stored, time) ==
  IF Len(getBrowserVotes(stored, time)) # Len(stored)
  THEN getBrowserVotes(stored, time)
  ELSE stored

hasBrowserVotedInBattle(stored, time, battleId) ==
  \E i \in 1..Len(getBrowserVotes(stored, time)) :
     getBrowserVotes(stored, time)[i].battleId = battleId

\* votes.find(...) || null, as a list of at most one record.
getBrowserVoteForBattle(stored, time, battleId) ==
  LET votes == getBrowserVotes(stored, time)
      hits == SelectSeq(votes, LAMBDA vote : vote.battleId = battleId)
  IN IF Len(hits) > 0 THEN <<hits[1]>> ELSE <<>>

\* recordBrowserVote without the removal of the battle's earlier record.
recordBrowserVoteAppend(stored, time, battleId, pokemonName) ==
  Append(getBrowserVotes(stored, time),
         [battleId |-> battleId, pokemonName |-> pokemonName,
          timestamp |-> time, userAgent |-> "ua"])

\* recordBrowserVote: the list it saves to localStorage.
recordBrowserVote(stored, time, battleId, pokemonName) ==
  LET votes == getBrowserVotes(stored, time)
      filteredVotes == SelectSeq(votes, LAMBDA vote : vote.battleId # battleId)
      newVote == [battleId |-> battleId, pokemonName |-> pokemonName,
                  timestamp |-> time, userAgent |-> "ua"]
  IN Append(filteredVotes, newVote)

InitLedger ==
  /\ LedgerIdle
  /\ ReducerIdle
  /\ WinnerIdle
  /\ ReceiveIdle
  /\ NetIdle
  /\ IdsIdle
  /\ ServiceIdle
  /\ MsgIdle

\* The "check browser voting status" effect: the status read from the ledger.
StatusFromLedger(stored, time, battleId) ==
  IF hasBrowserVotedInBattle(stored, time, battleId)
  THEN [hasVoted |-> TRUE,
        pokemonName |-> getBrowserVoteForBattle(stored, time, battleId)[1].pokemonName]
  ELSE [hasVoted |-> FALSE, pokemonName |-> UNDEFINED]

\* A tab is opened or reloaded on a battle: a new session starts, START_BATTLE
\* runs, the P2P service is initialized for the room and the "check browser
\* voting status" effect reads the ledger.
LoadPage(t, params) ==
  /\ loaded' = [loaded EXCEPT ![t] = TRUE]
  /\ battleParams' = [battleParams EXCEPT ![t] = params]
  /\ tabRoom' = [tabRoom EXCEPT ![t] = BattleIdOf(params)]
  /\ tstate' = [tstate EXCEPT ![t] = StartedState]
  /\ tabVoted' = [tabVoted EXCEPT ![t] = FALSE]
  /\ browserVoteStatus' = [browserVoteStatus EXCEPT ![t] =
       StatusFromLedger(storage, now, BattleIdOf(params))]
  /\ storage' = StorageAfterRead(storage, now)
  /\ toasts' = [toasts EXCEPT ![t] = 0]
  /\ UNCHANGED <<now, lastCast>>
  /\ UNCHANGED <<reducerVars, winnerVars, receiveVars, netVars, idVars, svcVars, msgVars>>

\* handleNewBattle and the effects it triggers: RESET_BATTLE, hasThisPeerVoted
\* cleared, new battleParams, START_BATTLE for the new pair, the status effect
\* reading the ledger, and reinitialize (disconnect, then initialize) of P2P.
NewBattle(t, params) ==
  /\ loaded[t]
  /\ params # battleParams[t]
  /\ battleParams' = [battleParams EXCEPT ![t] = params]
  /\ tabRoom' = [tabRoom EXCEPT ![t] = BattleIdOf(params)]
  /\ tstate' = [tstate EXCEPT ![t] =
       StartBattleReducer(ResetBattleReducer(tstate[t]), Items[1], Items[2],
                          RandomBattleId)]
  /\ tabVoted' = [tabVoted EXCEPT ![t] = FALSE]
  /\ browserVoteStatus' = [browserVoteStatus EXCEPT ![t] =
       StatusFromLedger(storage, now, BattleIdOf(params))]
  /\ storage' = StorageAfterRead(storage, now)
  /\ UNCHANGED <<now, loaded, toasts, lastCast>>
  /\ UNCHANGED <<reducerVars, winnerVars, receiveVars, netVars, idVars, svcVars, msgVars>>

\* handleVote with browserVoteStatus.hasVoted set: the warning toast, no vote.
HandleVoteBlocked(t) ==
  /\ loaded[t]
  /\ browserVoteStatus[t].hasVoted
  /\ toasts[t] < 1
  /\ toasts' = [toasts EXCEPT ![t] = @ + 1]
  /\ UNCHANGED <<now, storage, loaded, battleParams, tabRoom, browserVoteStatus,
                 tabVoted, tstate, lastCast>>
  /\ UNCHANGED <<reducerVars, winnerVars, receiveVars, netVars, idVars, svcVars, msgVars>>

\* handleVote otherwise: recordBrowserVote, setBrowserVoteStatus, castVote,
\* broadcastVote, setHasThisPeerVoted(true).
HandleVoteCast(t, pokemonName) ==
  /\ loaded[t]
  /\ ~browserVoteStatus[t].hasVoted
  /\ ~tabVoted[t] /\ tstate[t].isActive
  /\ storage' = recordBrowserVote(storage, now, BattleIdOf(battleParams[t]), pokemonName)
  /\ browserVoteStatus' = [browserVoteStatus EXCEPT ![t] =
       [hasVoted |-> TRUE, pokemonName |-> pokemonName]]
  /\ tstate' = [tstate EXCEPT ![t] =
       VoteStatusEffect(tstate[t],
         CastVoteReducer(tstate[t], <<"session", t>>, pokemonName, <<"vote", t>>),
         <<"session", t>>)]
  /\ tabVoted' = [tabVoted EXCEPT ![t] = TRUE]
  /\ lastCast' = {c \in lastCast : c.battleId # BattleIdOf(battleParams[t])}
                  \cup {[tab |-> t, battleId |-> BattleIdOf(battleParams[t]), time |-> now]}
  /\ UNCHANGED <<now, loaded, battleParams, tabRoom, toasts>>
  /\ UNCHANGED <<reducerVars, winnerVars, receiveVars, netVars, idVars, svcVars, msgVars>>

\* The values of Date.now() at which something happens: the first hours, and the
\* hours around the expiry of a record written in the first hours.
ClockValues == {0, 1} \cup ((VOTE_EXPIRY_HOURS - 1)..MaxTime)

\* Time passes.
Tick(time) ==
  /\ time > now
  /\ now' = time
  /\ UNCHANGED <<storage, loaded, battleParams, tabRoom, browserVoteStatus, tabVoted,
                 tstate, toasts, lastCast>>
  /\ UNCHANGED <<reducerVars, winnerVars, receiveVars, netVars, idVars, svcVars, msgVars>>

NextLedger ==
  \/ \E t \in Tabs, params \in LedgerParams : LoadPage(t, params)
  \/ \E t \in Tabs, params \in LedgerParams : NewBattle(t, params)
  \/ \E t \in Tabs : HandleVoteBlocked(t)
  \/ \E t \in Tabs, pokemonName \in ItemSet : HandleVoteCast(t, pokemonName)
  \/ \E time \in ClockValues : Tick(time)

SpecLedger == InitLedger /\ [][NextLedger]_vars

\* C10: two tabs of one browser never both cast a vote for the same battle id
\* within 24 hours of each other.
C10_OneVotePerBrowserAndBattle ==
  [][\A t \in Tabs, pokemonName \in ItemSet :
       HandleVoteCast(t, pokemonName) =>
         \A c \in lastCast :
            (c.battleId = BattleIdOf(battleParams[t]) /\ c.tab # t)
              => now - c.time >= VOTE_EXPIRY_HOURS]_vars

\* The records of a stored list that are less than 24 hours old at a time.
LiveRecords(stored, time) ==
  SelectSeq(stored, LAMBDA r : time - r.timestamp < VOTE_EXPIRY_HOURS)

\* The positions of the records of a battle id in a stored list.
RecordsOf(stored, battleId) ==
  {i \in 1..Len(stored) : stored[i].battleId = battleId}

LedgerBattleIds == {BattleIdOf(params) : params \in LedgerParams}

\* A step in which tab t reads the ledger for the battle of params.
ReadsLedger(t, params) == LoadPage(t, params) \/ NewBattle(t, params)

\* C11: a read reports a record of the battle exactly when the record is less
\* than 24 hours old, reports that record's item, and leaves in the persisted
\* list exactly the records less than 24 hours old.
C11_LedgerTTL ==
  [][\A t \in Tabs, params \in LedgerParams :
       ReadsLedger(t, params) =>
         /\ browserVoteStatus'[t].hasVoted =
              (\E i \in RecordsOf(storage, BattleIdOf(params)) :
                  now - storage[i].timestamp < VOTE_EXPIRY_HOURS)
         /\ browserVoteStatus'[t].hasVoted =>
              \E i \in RecordsOf(storage, BattleIdOf(params)) :
                 /\ now - storage[i].timestamp < VOTE_EXPIRY_HOURS
                 /\ browserVoteStatus'[t].pokemonName = storage[i].pokemonName
         /\ \A i \in 1..Len(storage') :
               now - storage'[i].timestamp < VOTE_EXPIRY_HOURS
         /\ storage' = LiveRecords(storage, now)]_vars

\* A tab that voted in its battle 24 hours ago or earlier has read the ledger
\* again: the record is reported absent and is gone from the persisted list.
C11_Witness ==
  \E t \in Tabs :
     /\ loaded[t]
     /\ \E c \in lastCast :
           /\ c.tab = t /\ c.battleId = BattleIdOf(battleParams[t])
           /\ now - c.time >= VOTE_EXPIRY_HOURS
     /\ ~browserVoteStatus[t].hasVoted
     /\ RecordsOf(storage, BattleIdOf(battleParams[t])) = {}

C13_LedgerIndependentOfSession ==
  [][\A t \in Tabs, params \in LedgerParams :
       ReadsLedger(t, params) =>
         /\ LiveRecords(storage', now) = LiveRecords(storage, now)
         /\ (\E c \in lastCast :
               /\ c.battleId = BattleIdOf(params)
               /\ now - c.time < VOTE_EXPIRY_HOURS)
            => /\ browserVoteStatus'[t].hasVoted
               /\ \A pokemonName \in ItemSet : ~(ENABLED HandleVoteCast(t, pokemonName))']_vars

\* A tab voted, left for a new session or battle, is back on the battle within
\* 24 hours and had its vote attempt refused.
C13_Witness ==
  \E t \in Tabs :
     /\ loaded[t]
     /\ \E c \in lastCast :
           /\ c.tab = t /\ c.battleId = BattleIdOf(battleParams[t])
           /\ now - c.time < VOTE_EXPIRY_HOURS
           /\ now > c.time
     /\ ~tabVoted[t]
     /\ tstate[t].votes = <<>>
     /\ browserVoteStatus[t].hasVoted
     /\ toasts[t] = 1

(***************************************************************************)
(* SpecIds: the room id and the battle id of a pair of Pokemon indexes      *)
(***************************************************************************)
\* String(n): the decimal digits of an index.
RECURSIVE DecimalString(_)
DecimalString(n) == IF n < 10 THEN <<n>> ELSE Append(DecimalString(n \div 10), n % 10)

\* a < b for strings, as Array.prototype.sort compares without a comparator.
RECURSIVE StringLess(_, _)
StringLess(a, b) ==
  IF b = <<>> THEN FALSE
  ELSE IF a = <<>> THEN TRUE
  ELSE IF a[1] # b[1] THEN a[1] < b[1]
  ELSE StringLess(Tail(a), Tail(b))

\* generateRoomId keeping the argument order.
generateRoomIdUnsorted(pokemon1, pokemon2) ==
  <<"battle", pokemon1, "vs", pokemon2>>

\* generateRoomId: [pokemon1, pokemon2].sort(), `battle_${sorted[0]}_vs_${sorted[1]}`.
\* An id is the sequence of its parts between the underscores.
generateRoomId(pokemon1, pokemon2) ==
  LET sorted == IF StringLess(DecimalString(pokemon2), DecimalString(pokemon1))
                THEN <<pokemon2, pokemon1>>
                ELSE <<pokemon1, pokemon2>>
  IN <<"battle", sorted[1], "vs", sorted[2]>>

InitIds ==
  /\ idArgs \in (1..MaxIndex) \X (1..MaxIndex)
  /\ idRoom = <<>>
  /\ idBattle = <<>>
  /\ ReducerIdle
  /\ WinnerIdle
  /\ ReceiveIdle
  /\ NetIdle
  /\ LedgerIdle
  /\ ServiceIdle
  /\ MsgIdle

\* Two peers name the pair in opposite orders.
CallGenerateIds ==
  /\ idRoom = <<>>
  /\ idRoom' = <<generateRoomId(idArgs[1], idArgs[2]),
                 generateRoomId(idArgs[2], idArgs[1])>>
  /\ idBattle' = <<generateBattleId(idArgs[1], idArgs[2]),
                   generateBattleId(idArgs[2], idArgs[1])>>
  /\ UNCHANGED idArgs
  /\ UNCHANGED <<reducerVars, winnerVars, receiveVars, netVars, ledgerVars, svcVars, msgVars>>

NextIds == CallGenerateIds

SpecIds == InitIds /\ [][NextIds]_vars

\* C14: the room id and the battle id of a pair do not depend on the order in
\* which the two items are named.
C14_RoomIdOrderIndependent ==
  idRoom # <<>> => (idRoom[1] = idRoom[2] /\ idBattle[1] = idBattle[2])

\* The pair (10, 2), which sorts differently as strings and as numbers.
C14_Witness ==
  /\ idArgs = <<10, 2>>
  /\ idRoom = <<<<"battle", 10, "vs", 2>>, <<"battle", 10, "vs", 2>>>>
  /\ idBattle = <<<<"battle", 2, "vs", 10>>, <<"battle", 2, "vs", 10>>>>

(***************************************************************************)
(* SpecService: the life cycle of P2PService                               *)
(***************************************************************************)
\* The battles a session can be initialized for.
ServiceParams == {<<1, 2>>, <<3, 4>>}

\* The number generatePeerId draws for this peer, and the one of the other
\* peer of each room.
LocalNum == 1

RemoteNum == 2

\* generatePeerId: `${roomId}_${randomNum}`.
generatePeerId(roomId, randomNum) == Append(roomId, randomNum)

\* Math.random() returns one of the fractions random / RandomSteps, random in
\* 0..RandomSteps - 1.
RandomSteps == 250

\* The 100 of generatePeerId and the 100 of the loop of discoverPeers.
randomRange == 100

candidateCount == 100

\* generatePeerId: randomNum = Math.floor(Math.random() * 100) + 1.
randomNum(random) == (random * randomRange) \div RandomSteps + 1

\* The loop of discoverPeers: the candidate ids `${roomId}_${i}`, i = 1..100.
candidatePeerIds(roomId) == {generatePeerId(roomId, i) : i \in 1..candidateCount}

\* The peers that can dial in: the other peer of each room, and a peer of the
\* broker that does not belong to this application.
RemotePeerIds ==
  {generatePeerId(generateRoomId(params[1], params[2]), RemoteNum) :
     params \in ServiceParams} \cup {<<"lobby", RemoteNum>>}

\* config.maxConnections of P2PService.
maxConnections == 8

\* SpecCrowd: a room with one peer more than maxConnections beside this one.
\* Some are there when this peer discovers, the others join later and dial in.
CrowdParams == <<5, 6>>

EarlyPeerIds ==
  {generatePeerId(generateRoomId(CrowdParams[1], CrowdParams[2]), i) :
     i \in 2..(maxConnections \div 2 + 1)}

LatePeerIds ==
  {generatePeerId(generateRoomId(CrowdParams[1], CrowdParams[2]), i) :
     i \in (maxConnections \div 2 + 2)..(maxConnections + 2)}

\* The peers a dial of discovery can reach.
PresentPeerIds == RemotePeerIds \cup EarlyPeerIds

\* String.prototype.startsWith, on ids split at the underscores.
startsWith(id, prefix) ==
  /\ Len(prefix) <= Len(id)
  /\ SubSeq(id, 1, Len(prefix)) = prefix

\* updateStatus: the status is stored and handed to onConnectionStatusChanged
\* (statusChanged is the last status the handler was called with).
updateStatus(s, status) == [s EXCEPT !.status = status, !.statusChanged = status]

\* enableLocalFallbackMode.
enableLocalFallbackMode(s) == updateStatus(s, "error")

\* handleIncomingConnection accepting a peer id that starts with the whole room id.
acceptsIncomingWholeRoom(s, peer) == startsWith(peer, s.roomId)

\* handleIncomingConnection's test: conn.peer.startsWith(roomId.split('_')[0]).
acceptsIncoming(s, peer) == startsWith(peer, <<s.roomId[1]>>)

\* disconnect() that leaves the connection map as it is.
disconnectKeepsPeers(s, running) ==
  [svc |-> updateStatus([s EXCEPT !.peer = 0, !.links = {}], "offline"),
   timers |-> running \ {s.heartbeatInterval}]

\* disconnect() that starts the count of reconnection attempts afresh.
disconnectResetsAttempts(s, running) ==
  [svc |-> updateStatus([s EXCEPT !.peer = 0, !.connectedPeers = {}, !.links = {},
                                  !.lastSeen = <<>>, !.connectionAttempts = 0],
                        "offline"),
   timers |-> running \ {s.heartbeatInterval}]

\* disconnect(): the service state and the running interval timers it leaves.
disconnect(s, running) ==
  [svc |-> updateStatus([s EXCEPT !.peer = 0, !.connectedPeers = {}, !.links = {},
                                  !.lastSeen = <<>>],
                        "offline"),
   timers |-> running \ {s.heartbeatInterval}]

\* attemptReconnection that gives up one signal later.
attemptReconnectionOffByOne(s, pending) ==
  IF s.connectionAttempts > reconnectAttempts
  THEN [svc |-> updateStatus(s, "error"), reconnects |-> pending]
  ELSE [svc |-> [s EXCEPT !.connectionAttempts = @ + 1],
        reconnects |-> Append(pending, reconnectDelay)]

\* attemptReconnection(): the service state and the pending timeouts it leaves.
attemptReconnection(s, pending) ==
  IF s.connectionAttempts >= reconnectAttempts
  THEN [svc |-> updateStatus(s, "error"), reconnects |-> pending]
  ELSE [svc |-> [s EXCEPT !.connectionAttempts = @ + 1],
        reconnects |-> Append(pending, reconnectDelay)]

\* handlePeerError.
handlePeerError(s, type) ==
  IF type = "network" THEN enableLocalFallbackMode(s)
  ELSE IF type = "server-error" THEN updateStatus(s, "error")
  ELSE [s EXCEPT !.peerId = generatePeerId(s.roomId, LocalNum)]

InitService ==
  /\ ServiceIdle
  /\ MsgIdle
  /\ IdsIdle
  /\ ReducerIdle
  /\ WinnerIdle
  /\ ReceiveIdle
  /\ NetIdle
  /\ LedgerIdle

ServiceFrame ==
  UNCHANGED <<reducerVars, winnerVars, receiveVars, netVars, ledgerVars, idVars, msgVars>>

\* An initialize() call that has not returned yet.
Pending(c) == c.stage \in {"createPeer", "retryWait", "discover"}

\* initialize() whose catch blocks rethrow what they caught.
initializeRethrows(s, c) ==
  [svc |-> s, cont |-> [c EXCEPT !.stage = "rejected"]]

\* The catch blocks of initialize(): a rejection of createPeer() enables the
\* fallback mode and initialize() returns.
initializeCatch(s, c) ==
  [svc |-> enableLocalFallbackMode(s), cont |-> [c EXCEPT !.stage = "returned"]]

\* initialize() up to its first await: status discovering, room id, peer id,
\* and the first turn of createPeer's loop: the Peer object is created with its
\* event handlers, or `new Peer` throws and the loop waits before its next turn.
\* The application calls it once at start and then only after disconnect()
\* (reinitialize).
ServiceInitializeWith(params, throws) ==
  /\ gen < MaxSessions
  /\ gen = 0 \/ torn
  /\ LET roomId == generateRoomId(params[1], params[2])
         started == [updateStatus(svc, "discovering") EXCEPT
                       !.roomId = roomId,
                       !.peerId = generatePeerId(roomId, LocalNum)]
     IN svc' = IF throws THEN started ELSE [started EXCEPT !.peer = gen + 1]
  /\ conts' = conts \cup
       {[gen |-> gen + 1,
         stage |-> IF throws THEN "retryWait" ELSE "createPeer",
         attempts |-> IF throws THEN 1 ELSE 0]}
  /\ priorRoom' = svc.roomId
  /\ gen' = gen + 1
  /\ torn' = FALSE
  /\ UNCHANGED <<timers, handshakes, reconnects, rejected, beats>>
  /\ ServiceFrame

\* initialize() with a Peer constructor that does not throw.
ServiceInitialize(params) == ServiceInitializeWith(params, FALSE)

\* The next turn of createPeer's loop after its one second wait: the Peer is
\* created, or `new Peer` throws again: the third throw rejects createPeer,
\* an earlier one draws a new peer id and waits again.
CreatePeerRetry(c, throws) ==
  /\ c \in conts /\ c.stage = "retryWait"
  /\ IF ~throws
     THEN /\ svc' = [svc EXCEPT !.peer = c.gen]
          /\ conts' = (conts \ {c}) \cup {[c EXCEPT !.stage = "createPeer"]}
     ELSE IF c.attempts + 1 >= maxAttempts
     THEN /\ svc' = initializeCatch(svc, [c EXCEPT !.attempts = @ + 1]).svc
          /\ conts' = (conts \ {c}) \cup
                        {initializeCatch(svc, [c EXCEPT !.attempts = @ + 1]).cont}
     ELSE /\ svc' = [svc EXCEPT !.peerId = generatePeerId(svc.roomId, LocalNum)]
          /\ conts' = (conts \ {c}) \cup {[c EXCEPT !.attempts = @ + 1]}
  /\ UNCHANGED <<timers, handshakes, reconnects, rejected, priorRoom, gen, torn, beats>>
  /\ ServiceFrame

\* The Peer object of an awaiting initialize() still exists.
PeerAlive(c) == svc.peer = c.gen

\* The ids discoverPeers dials: attemptConnection is called for every candidate
\* but the peer's own id, and returns at once for an id the map has.
attemptConnections(s) ==
  {id \in candidatePeerIds(s.roomId) \ {s.peerId} : id \notin s.connectedPeers}

\* peer.on('open'): createPeer resolves and discoverPeers dials the candidate
\* ids of the room, then awaits the race of the attempts and the timeout.  The
\* attempts to ids no peer has fail silently; those to the peers there are
\* become handshakes.
PeerOpen(c) ==
  /\ c \in conts /\ c.stage = "createPeer"
  /\ PeerAlive(c)
  /\ handshakes' =
       handshakes \cup
         {[peer |-> id, gen |-> c.gen, inbound |-> FALSE, timedOut |-> FALSE] :
            id \in attemptConnections(svc) \cap PresentPeerIds}
  /\ conts' = (conts \ {c}) \cup {[c EXCEPT !.stage = "discover"]}
  /\ UNCHANGED <<svc, timers, reconnects, rejected, priorRoom, gen, torn, beats>>
  /\ ServiceFrame

\* The 10 s 'Peer creation timeout' of setupPeerEvents: createPeer rejects and
\* initialize() enables the fallback mode.
CreatePeerTimeout(c) ==
  /\ c \in conts /\ c.stage = "createPeer"
  /\ svc' = initializeCatch(svc, c).svc
  /\ conts' = (conts \ {c}) \cup {initializeCatch(svc, c).cont}
  /\ UNCHANGED <<timers, handshakes, reconnects, rejected, priorRoom, gen, torn, beats>>
  /\ ServiceFrame

\* peer.on('error'): handlePeerError, then reject(error), which ends an
\* initialize() still awaiting createPeer in the fallback mode.
PeerError(type) ==
  /\ svc.peer # 0
  /\ LET awaiting == {c \in conts : c.stage = "createPeer" /\ PeerAlive(c)}
         handled == handlePeerError(svc, type)
     IN /\ svc' = IF awaiting # {}
                  THEN initializeCatch(handled, CHOOSE c \in awaiting : TRUE).svc
                  ELSE handled
        /\ conts' = (conts \ awaiting) \cup
                      {initializeCatch(handled, c).cont : c \in awaiting}
  /\ UNCHANGED <<timers, handshakes, reconnects, rejected, priorRoom, gen, torn, beats>>
  /\ ServiceFrame

\* The attempts of a discoverPeers call that have not settled: setupConnection
\* neither resolved nor rejected.
attemptsPending(c) ==
  {h \in handshakes : h.gen = c.gen /\ ~h.inbound /\ ~h.timedOut}

\* discoverPeers awaiting Promise.allSettled of the attempts alone.
discoveryAllSettled(pending, timerFired) == pending = {}

\* The race of discoverPeers: Promise.allSettled of the attempts against the
\* timer of extendedTimeout.
discoveryRace(pending, timerFired) == timerFired \/ pending = {}

\* The race of discoverPeers settles: initialize() goes on with
\* startHeartbeat() and updateStatus('connected'), and returns.
DiscoveryDone(c) ==
  /\ c \in conts /\ c.stage = "discover"
  /\ \E timerFired \in BOOLEAN : discoveryRace(attemptsPending(c), timerFired)
  /\ svc' = [updateStatus(svc, "connected") EXCEPT !.heartbeatInterval = c.gen]
  /\ timers' = timers \cup {c.gen}
  /\ conts' = (conts \ {c}) \cup {[c EXCEPT !.stage = "returned"]}
  /\ UNCHANGED <<handshakes, reconnects, rejected, priorRoom, gen, torn, beats>>
  /\ ServiceFrame

\* conn.on('open') of setupConnection: the connection is open (links holds the
\* open connections, by remote peer and direction) and the map gets an entry
\* under conn.peer, replacing one that is there.
ConnectionOpen(h) ==
  /\ h \in handshakes
  /\ svc' = [svc EXCEPT !.connectedPeers = @ \cup {h.peer},
                        !.links = @ \cup {[peer |-> h.peer, inbound |-> h.inbound]},
                        !.lastSeen = [p \in svc.connectedPeers \cup {h.peer} |->
                                        IF p = h.peer THEN "connectedAt" ELSE @[p]]]
  /\ handshakes' = handshakes \ {h}
  /\ UNCHANGED <<timers, conts, reconnects, rejected, priorRoom, gen, torn, beats>>
  /\ ServiceFrame

\* The connection timeout of setupConnection: the promise is rejected, the
\* handlers of the connection stay registered.
ConnectionTimeout(h) ==
  /\ h \in handshakes
  /\ ~h.timedOut
  /\ handshakes' = (handshakes \ {h}) \cup {[h EXCEPT !.timedOut = TRUE]}
  /\ UNCHANGED <<svc, timers, conts, reconnects, rejected, priorRoom, gen, torn, beats>>
  /\ ServiceFrame

\* conn.on('error') of setupConnection.
ConnectionFail(h) ==
  /\ h \in handshakes
  /\ handshakes' = handshakes \ {h}
  /\ UNCHANGED <<svc, timers, conts, reconnects, rejected, priorRoom, gen, torn, beats>>
  /\ ServiceFrame

\* peer.on('connection'): handleIncomingConnection.  The broker passes a dial
\* on only to a Peer it has opened.
IncomingConnection(peer) ==
  /\ svc.peer # 0
  /\ \E c \in conts : c.gen = svc.peer /\ c.stage \in {"discover", "returned"}
  /\ peer \notin svc.connectedPeers
  /\ IF acceptsIncoming(svc, peer)
     THEN /\ handshakes' = handshakes \cup
                             {[peer |-> peer, gen |-> svc.peer, inbound |-> TRUE,
                               timedOut |-> FALSE]}
          /\ UNCHANGED rejected
     ELSE /\ rejected' = rejected \cup {peer}
          /\ UNCHANGED handshakes
  /\ UNCHANGED <<svc, timers, conts, reconnects, priorRoom, gen, torn, beats>>
  /\ ServiceFrame

\* conn.on('close') of the open connection l: handlePeerDisconnection(conn.peer)
\* deletes the entry of the peer.
handlePeerDisconnection(s, l) ==
  [s EXCEPT !.links = @ \ {l}, !.connectedPeers = @ \ {l.peer},
            !.lastSeen = [p \in s.connectedPeers \ {l.peer} |-> @[p]]]

\* The transport closes an open connection.
ConnectionClose(l) ==
  /\ l \in svc.links
  /\ svc' = handlePeerDisconnection(svc, l)
  /\ UNCHANGED <<timers, conts, handshakes, reconnects, rejected, priorRoom, gen, torn,
                 beats>>
  /\ ServiceFrame

\* disconnect(), called by reinitialize and when the component unmounts.
Disconnect ==
  /\ svc' = disconnect(svc, timers).svc
  /\ timers' = disconnect(svc, timers).timers
  /\ torn' = TRUE
  /\ UNCHANGED <<conts, handshakes, reconnects, rejected, priorRoom, gen, beats>>
  /\ ServiceFrame

\* The interval callback of startHeartbeat: a HEARTBEAT is broadcast.
HeartbeatTick(id) ==
  /\ id \in timers
  /\ beats < MaxBeats
  /\ beats' = beats + 1
  /\ UNCHANGED <<svc, timers, conts, handshakes, reconnects, rejected, priorRoom, gen,
                 torn>>
  /\ ServiceFrame

\* peer.on('disconnected'): attemptReconnection().
BrokerDisconnected ==
  /\ svc.peer # 0
  /\ svc' = attemptReconnection(svc, reconnects).svc
  /\ reconnects' = attemptReconnection(svc, reconnects).reconnects
  /\ UNCHANGED <<timers, conts, handshakes, rejected, priorRoom, gen, torn, beats>>
  /\ ServiceFrame

\* The timeout of attemptReconnection fires: peer.reconnect() if there is a
\* peer, and attemptReconnection() again if that throws.
ReconnectTimeout(throws) ==
  /\ reconnects # <<>>
  /\ IF svc.peer # 0 /\ throws
     THEN /\ svc' = attemptReconnection(svc, Tail(reconnects)).svc
          /\ reconnects' = attemptReconnection(svc, Tail(reconnects)).reconnects
     ELSE /\ reconnects' = Tail(reconnects)
          /\ UNCHANGED svc
  /\ UNCHANGED <<timers, conts, handshakes, rejected, priorRoom, gen, torn, beats>>
  /\ ServiceFrame

\* Sessions, rooms and connections, with a broker that stays reachable.
NextService ==
  \/ \E params \in ServiceParams : ServiceInitialize(params)
  \/ \E c \in conts : PeerOpen(c)
  \/ \E c \in conts : CreatePeerTimeout(c)
  \/ \E c \in conts : DiscoveryDone(c)
  \/ \E h \in handshakes : ConnectionOpen(h)
  \/ \E h \in handshakes : ConnectionFail(h)
  \/ \E peer \in RemotePeerIds : IncomingConnection(peer)
  \/ \E l \in svc.links : ConnectionClose(l)
  \/ Disconnect
  \/ \E id \in timers : HeartbeatTick(id)

SpecService == InitService /\ [][NextService]_vars

\* Sessions of a peer that nobody dials, with broker errors and disconnections.
NextReconnect ==
  \/ \E params \in ServiceParams : ServiceInitialize(params)
  \/ \E c \in conts : PeerOpen(c)
  \/ \E c \in conts : CreatePeerTimeout(c)
  \/ \E type \in {"network", "server-error", "unavailable-id"} : PeerError(type)
  \/ \E c \in conts : DiscoveryDone(c)
  \/ \E h \in handshakes : ConnectionOpen(h)
  \/ \E h \in handshakes : ConnectionFail(h)
  \/ Disconnect
  \/ \E id \in timers : HeartbeatTick(id)
  \/ BrokerDisconnected
  \/ \E throws \in BOOLEAN : ReconnectTimeout(throws)

SpecReconnect == InitService /\ [][NextReconnect]_vars


\* C15: an inbound connection from a peer id that is not prefixed by the whole
\* room id is closed at once: no handshake is set up for it.
C15_InboundOnlyFromOwnRoom ==
  [][\A peer \in RemotePeerIds :
       (IncomingConnection(peer) /\ ~startsWith(peer, svc.roomId))
         => /\ peer \in rejected'
            /\ handshakes' = handshakes]_vars

\* C16: once initialize() has followed disconnect() with another room, the
\* connection set holds no peer id of the prior room.
C16_NoPriorRoomConnection ==
  (~torn /\ priorRoom # <<>> /\ priorRoom # svc.roomId)
    => \A peer \in svc.connectedPeers : ~startsWith(peer, priorRoom)

\* C17: disconnect() leaves an empty connection set, no peer and the status
\* offline, whatever the status was, and a second disconnect() changes nothing.
C17_DisconnectIdempotent ==
  [][Disconnect =>
       /\ svc'.connectedPeers = {}
       /\ svc'.peer = 0
       /\ svc'.status = "offline"
       /\ disconnect(svc', timers') = [svc |-> svc', timers |-> timers']]_vars

\* disconnect() was called in a session that had started its heartbeat and had
\* been disconnected from the broker, and left nothing of it.
C17_Witness ==
  /\ torn
  /\ svc.heartbeatInterval # 0
  /\ svc.connectionAttempts > 0
  /\ svc.status = "offline"
  /\ svc.connectedPeers = {}
  /\ svc.peer = 0
  /\ timers = {}
  /\ handshakes = {}

\* C18: between disconnect() and the next initialize() the status is offline
\* and no heartbeat timer runs.
C18_NothingAfterDisconnect ==
  torn => (svc.status = "offline" /\ timers = {})

\* C19: a 'disconnected' signal with fewer than reconnectAttempts attempts made
\* counts one attempt and schedules one timeout of reconnectDelay; with the
\* bound reached it sets the status to error and schedules nothing.
C19_ReconnectionBounded ==
  /\ [](svc.connectionAttempts <= reconnectAttempts)
  /\ [][BrokerDisconnected =>
          IF svc.connectionAttempts < reconnectAttempts
          THEN /\ svc'.connectionAttempts = svc.connectionAttempts + 1
               /\ reconnects' = Append(reconnects, reconnectDelay)
               /\ svc'.status = svc.status
          ELSE /\ svc'.status = "error"
               /\ svc'.connectionAttempts = svc.connectionAttempts
               /\ reconnects' = reconnects]_vars

\* The signal after the third attempt arrived while the peer was connected.
C19_Witness ==
  /\ svc.connectionAttempts = reconnectAttempts
  /\ svc.status = "error"
  /\ svc.peer # 0
  /\ svc.heartbeatInterval = svc.peer
  /\ \A c \in conts : ~Pending(c)

\* C20: the status starts as offline and leaves error only by a call of
\* initialize() or of disconnect().
C20_ErrorIsTerminal ==
  /\ svc.status = "offline"
  /\ [][(svc.status = "error" /\ svc'.status # "error")
          => \/ \E params \in ServiceParams : ServiceInitialize(params)
             \/ Disconnect]_vars

(***************************************************************************)
(* SpecInit: one initialize() with a Peer that may fail to open, candidates *)
(* that may never answer and peers that dial in                            *)
(***************************************************************************)
NextInit ==
  \/ \E params \in ServiceParams, throws \in BOOLEAN :
       ServiceInitializeWith(params, throws)
  \/ \E c \in conts, throws \in BOOLEAN : CreatePeerRetry(c, throws)
  \/ \E c \in conts : PeerOpen(c)
  \/ \E c \in conts : CreatePeerTimeout(c)
  \/ \E type \in {"network", "server-error", "unavailable-id"} : PeerError(type)
  \/ \E c \in conts : DiscoveryDone(c)
  \/ \E h \in handshakes : ConnectionOpen(h)
  \/ \E h \in handshakes : ConnectionTimeout(h)
  \/ \E h \in handshakes : ConnectionFail(h)
  \/ \E peer \in RemotePeerIds : IncomingConnection(peer)

SpecInit == InitService /\ [][NextInit]_vars

\* The step ends the createPeer() of the initialize() call c with a rejection.
CreatePeerRejects(c) ==
  /\ c.stage \in {"createPeer", "retryWait"}
  /\ \E d \in conts' : d.gen = c.gen /\ ~Pending(d)

\* C21: a failure to open the endpoint (an 'error' event such as
\* 'unavailable-id', the open timeout, a throwing constructor) ends initialize()
\* in the fallback mode only when it is the failure of the third creation
\* attempt; an earlier failure is followed by another attempt.
C21_FallbackOnlyAfterThreeAttempts ==
  [][\A c \in conts : CreatePeerRejects(c) => c.attempts + 1 >= maxAttempts]_vars

\* C23: initialize() never rejects, and a failure of the endpoint creation
\* leaves the status error, handed to onConnectionStatusChanged.
C23_InitializeNeverThrows ==
  /\ [](\A c \in conts : c.stage # "rejected")
  /\ [][\A c \in conts :
          CreatePeerRejects(c)
            => /\ svc'.status = "error"
               /\ svc'.statusChanged = "error"
               /\ [c EXCEPT !.stage = "returned"] \in conts'
                    \/ [c EXCEPT !.stage = "returned", !.attempts = @ + 1] \in conts']_vars

\* An initialize() whose Peer never opened has returned, before any session
\* was connected, and the handler was told the status error.
C23_Witness ==
  /\ \E c \in conts : c.stage = "returned" /\ c.attempts = 0
  /\ svc.heartbeatInterval = 0
  /\ svc.status = "error"
  /\ svc.statusChanged = "error"

\* C24: the race of discoverPeers can settle whatever the candidates do, it
\* never rejects, and initialize() then returns with the status connected, with
\* or without connections.
C24_DiscoveryEndsByTimeout ==
  /\ [](\A c \in conts : c.stage = "discover" => ENABLED DiscoveryDone(c))
  /\ [][\A c \in conts :
          DiscoveryDone(c)
            => /\ [c EXCEPT !.stage = "returned"] \in conts'
               /\ svc'.status = "connected"]_vars

\* initialize() returned connected with no connection while the handshake with
\* the candidate of its room was still pending.
C24_Witness ==
  /\ svc.status = "connected"
  /\ svc.connectedPeers = {}
  /\ \E c \in conts :
       /\ c.stage = "returned"
       /\ c.gen = svc.heartbeatInterval
       /\ attemptsPending(c) # {}

\* C29: the 'open' event of a connection whose handshake timed out adds nothing
\* to the connection set.
C29_TimedOutHandshakeNeverAdded ==
  [][\A h \in handshakes :
       (h.timedOut /\ ConnectionOpen(h))
         => svc'.connectedPeers = svc.connectedPeers]_vars

(***************************************************************************)
(* SpecBroadcast: the messages P2PService sends in one session             *)
(***************************************************************************)
\* generateMessageId: `msg_${Date.now()}_${random}`, the n-th drawn for a message.
generateMessageId(s, n) == <<"msg", s.peerId, n>>

\* The VOTE message of broadcastVote(pokemonName, userId).
voteMessage(s, pokemonName, userId) ==
  [type |-> "VOTE",
   payload |-> [pokemonName |-> pokemonName, userId |-> userId,
                voteId |-> generateMessageId(s, 1), timestamp |-> "now"],
   timestamp |-> "now", peerId |-> s.peerId, messageId |-> generateMessageId(s, 2),
   battleId |-> s.roomId]

\* The SYNC_REQUEST of requestSync().
syncRequest(s) ==
  [type |-> "SYNC_REQUEST", payload |-> [votes |-> <<>>], timestamp |-> "now",
   peerId |-> s.peerId, messageId |-> generateMessageId(s, 1), battleId |-> s.roomId]

\* The SYNC_RESPONSE of handleSyncRequest.
syncResponse(s) ==
  [type |-> "SYNC_RESPONSE", payload |-> [votes |-> <<>>], timestamp |-> "now",
   peerId |-> s.peerId, messageId |-> generateMessageId(s, 1), battleId |-> s.roomId]

\* The HEARTBEAT of startHeartbeat's interval callback.
heartbeat(s) ==
  [type |-> "HEARTBEAT", payload |-> <<>>, timestamp |-> "now",
   peerId |-> s.peerId, messageId |-> generateMessageId(s, 1)]

\* broadcastMessage that gives up, and rejects, at a send that throws.
broadcastSendsAbort(message, peers, failing) ==
  [message |-> message, attempted |-> peers,
   delivered |-> IF peers \cap failing = {} THEN peers ELSE {},
   raised |-> peers \cap failing # {}]

\* broadcastMessage(message): one send per connection, each in its own
\* try/catch, the sends to `failing` throwing; the promise is fulfilled.
broadcastSends(message, peers, failing) ==
  [message |-> message, attempted |-> peers, delivered |-> peers \ failing,
   raised |-> FALSE]

\* The frame of an action that touches the sent message only.
SendFrame ==
  /\ UNCHANGED <<svc, timers, conts, handshakes, reconnects, rejected, priorRoom, gen,
                 torn, beats, bstate, handlerVars, diskVars>>
  /\ UNCHANGED <<reducerVars, winnerVars, receiveVars, netVars, ledgerVars, idVars>>

\* peer.on('close'): the broker connection of the Peer is gone for good.
PeerClosed ==
  /\ svc.peer # 0
  /\ svc' = updateStatus(svc, "offline")
  /\ UNCHANGED <<timers, conts, handshakes, reconnects, rejected, priorRoom, gen, torn,
                 beats>>
  /\ ServiceFrame

\* The interval callback of startHeartbeat, with the sends it makes.
HeartbeatBroadcast(id, failing) ==
  /\ id \in timers
  /\ lastSent' = broadcastSends(heartbeat(svc), svc.connectedPeers, failing)
  /\ SendFrame

\* broadcastVote(pokemonName, userId), called by handleVote while the status
\* shown to the tab is connected, with connectionState.peerId as the user id.
ServiceBroadcastVote(pokemonName, failing) ==
  /\ svc.statusChanged = "connected"
  /\ lastSent' = IF svc.connectedPeers # {}
                 THEN broadcastSends(voteMessage(svc, pokemonName, svc.peerId),
                                     svc.connectedPeers, failing)
                 ELSE lastSent
  /\ SendFrame

\* requestSync(), called by BattleArena's effect once the tab is connected and
\* counts a peer.
ServiceRequestSync(failing) ==
  /\ svc.statusChanged = "connected"
  /\ svc.connectedPeers # {}
  /\ lastSent' = broadcastSends(syncRequest(svc), svc.connectedPeers, failing)
  /\ SendFrame

\* The service state of the remote peer with that id, as far as its messages
\* show it.
remoteService(peer) ==
  [peerId |-> peer, roomId |-> SubSeq(peer, 1, Len(peer) - 1)]

\* The messages the application at a remote peer sends over a connection.
RemoteMessages(peer) ==
  {voteMessage(remoteService(peer), pokemonName, peer) : pokemonName \in ItemSet}
    \cup {syncRequest(remoteService(peer)), syncResponse(remoteService(peer)),
          heartbeat(remoteService(peer))}

\* useP2P's onVoteReceived handler: the Vote it hands to receiveVote.
onVoteReceived(s, voteData) ==
  [id |-> voteData.voteId, userId |-> voteData.userId,
   pokemonName |-> voteData.pokemonName, battleId |-> s.roomId]

\* handleMessage that leaves the PeerConnection as it is.
lastSeenKept(s, fromPeer) == s

\* The head of handleMessage: the PeerConnection of the sender, if the map has
\* one, gets lastSeen = Date.now(), the time of this receipt (the entry was
\* created with lastSeen equal to connectedAt).
lastSeenUpdate(s, fromPeer) ==
  IF fromPeer \in s.connectedPeers
  THEN [s EXCEPT !.lastSeen[fromPeer] = "receipt"]
  ELSE s

\* The switch of handleMessage: what the message is handed to.
dispatch(type) ==
  CASE type = "VOTE" -> "onVoteReceived"
    [] type = "SYNC_REQUEST" -> "handleSyncRequest"
    [] type = "SYNC_RESPONSE" -> "onSyncReceived"
    [] OTHER -> "none"

\* conn.on('data') of an open connection: handleMessage(message, fromPeer).
\* After the last-seen update a VOTE goes to onVoteReceived and RECEIVE_VOTE, a
\* SYNC_REQUEST to handleSyncRequest (whose one send, made if the map has the
\* sender, may throw), a SYNC_RESPONSE to onSyncReceived, a HEARTBEAT nowhere.
HandleMessage(message, fromPeer, throws) ==
  LET seen == lastSeenUpdate(svc, fromPeer)
      to == dispatch(message.type)
  IN
  /\ \E l \in svc.links : l.peer = fromPeer
  /\ svc' = seen
  /\ bstate' =
       IF to = "onVoteReceived"
       THEN VoteStatusEffect(bstate,
              ReceiveVoteReducer(bstate, LocalUser, onVoteReceived(seen, message.payload)),
              LocalUser)
       ELSE IF to = "onSyncReceived"
       THEN VoteStatusEffect(bstate,
              OnSyncReceivedHandler(bstate, message.payload.votes), LocalUser)
       ELSE bstate
  /\ lastSent' =
       IF to = "handleSyncRequest" /\ fromPeer \in seen.connectedPeers
       THEN [message |-> syncResponse(seen), attempted |-> {fromPeer},
             delivered |-> IF throws THEN {} ELSE {fromPeer}, raised |-> throws]
       ELSE lastSent
  /\ UNCHANGED <<timers, conts, handshakes, reconnects, rejected, priorRoom, gen,
                 torn, beats, handlerVars, diskVars>>
  /\ UNCHANGED <<reducerVars, winnerVars, receiveVars, netVars, ledgerVars, idVars>>

NextBroadcast ==
  \/ \E params \in ServiceParams : ServiceInitialize(params)
  \/ \E c \in conts : PeerOpen(c)
  \/ \E c \in conts : DiscoveryDone(c)
  \/ \E h \in handshakes : ConnectionOpen(h)
  \/ \E peer \in RemotePeerIds : IncomingConnection(peer)
  \/ \E type \in {"network", "server-error", "unavailable-id"} : PeerError(type)
  \/ PeerClosed
  \/ \E id \in timers, failing \in SUBSET svc.connectedPeers :
       HeartbeatBroadcast(id, failing)
  \/ \E pokemonName \in ItemSet, failing \in SUBSET svc.connectedPeers :
       ServiceBroadcastVote(pokemonName, failing)
  \/ \E failing \in SUBSET svc.connectedPeers : ServiceRequestSync(failing)
  \/ \E peer \in RemotePeerIds, throws \in BOOLEAN :
       HandleMessage(syncRequest(remoteService(peer)), peer, throws)

SpecBroadcast == InitService /\ [][NextBroadcast]_vars

\* The step is a call of broadcastMessage whose sends to `failing` throw.
Broadcasts(failing) ==
  \/ \E id \in timers : HeartbeatBroadcast(id, failing)
  \/ svc.connectedPeers # {}
       /\ \E pokemonName \in ItemSet : ServiceBroadcastVote(pokemonName, failing)
  \/ ServiceRequestSync(failing)

\* C25: broadcastMessage attempts a send on every connection of the set, the
\* sends that do not throw are made whatever the others do, and no error
\* reaches the caller.
C25_BroadcastToleratesFailures ==
  [][\A failing \in SUBSET svc.connectedPeers :
       Broadcasts(failing)
         => /\ lastSent'.attempted = svc.connectedPeers
            /\ lastSent'.delivered = svc.connectedPeers \ failing
            /\ ~lastSent'.raised]_vars

\* A broadcast to two connections reached one of them while the send to the
\* other threw.
C25_Witness ==
  /\ Cardinality(lastSent.attempted) = 2
  /\ Cardinality(lastSent.delivered) = 1
  /\ lastSent.message.type \in {"VOTE", "SYNC_REQUEST", "HEARTBEAT"}
  /\ ~lastSent.raised

\* The fields of P2PMessage the protocol requires of every message.
MessageFields == {"type", "payload", "peerId", "messageId", "timestamp", "battleId"}

\* C27: every message sent carries a type, a payload, the sender's peer id, a
\* message id, a timestamp and the battle id.
C27_EveryMessageCarriesBattleId ==
  lastSent.message.type # "NONE" => MessageFields \subseteq DOMAIN lastSent.message

\* C30: a HEARTBEAT is sent to a connection only while the status is connected.
C30_HeartbeatOnlyWhileConnected ==
  [][\A id \in timers, failing \in SUBSET svc.connectedPeers :
       (HeartbeatBroadcast(id, failing) /\ svc.connectedPeers # {})
         => svc.status = "connected"]_vars

(***************************************************************************)
(* SpecRooms: the votes a tab merges while its service changes rooms       *)
(***************************************************************************)
\* battleParams changes.  "New Battle" (handleNewBattle) has reset the battle
\* and the start-battle effect starts the new one; browser navigation
\* (popstate) changes the parameters with the battle still active.  In both
\* cases the reinitialize effect calls disconnect() at once and initialize()
\* half a second later.
BattleParamsChanged(reset) ==
  /\ gen > 0
  /\ ~torn
  /\ bstate' = IF reset THEN StartedState ELSE bstate
  /\ svc' = disconnect(svc, timers).svc
  /\ timers' = disconnect(svc, timers).timers
  /\ torn' = TRUE
  /\ UNCHANGED <<conts, handshakes, reconnects, rejected, priorRoom, gen, beats, lastSent,
                 handlerVars, diskVars>>
  /\ UNCHANGED <<reducerVars, winnerVars, receiveVars, netVars, ledgerVars, idVars>>

NextRooms ==
  \/ \E params \in ServiceParams : ServiceInitialize(params)
  \/ \E c \in conts : PeerOpen(c)
  \/ \E c \in conts : DiscoveryDone(c)
  \/ \E h \in handshakes : ConnectionOpen(h)
  \/ \E reset \in BOOLEAN : BattleParamsChanged(reset)
  \/ \E peer \in RemotePeerIds, throws \in BOOLEAN :
       \E message \in RemoteMessages(peer) : HandleMessage(message, peer, throws)

SpecRooms == InitService /\ [][NextRooms]_vars

\* C28: once the service is connected for a battle, the vote set holds only
\* votes cast by peers of that battle's room.
C28_OnlyVotesOfCurrentBattle ==
  svc.status = "connected"
    => \A i \in 1..Len(bstate.votes) : startsWith(bstate.votes[i].userId, svc.roomId)


\* ---------------------------------------------------------------------------
\* Connection set and open connections (SpecService)

\* C31: a peer id is in the connection set exactly while an open connection to
\* that peer exists, also when the two peers opened a connection to each other
\* and only one of the two connections closes.
C31_EntryWhileConnectionOpen ==
  svc.connectedPeers = {l.peer : l \in svc.links}

(***************************************************************************)
(* SpecReceipt: the messages a peer receives in one session                *)
(***************************************************************************)
NextReceipt ==
  \/ \E params \in ServiceParams : ServiceInitialize(params)
  \/ \E c \in conts : PeerOpen(c)
  \/ \E c \in conts : DiscoveryDone(c)
  \/ \E h \in handshakes : ConnectionOpen(h)
  \/ \E peer \in RemotePeerIds : IncomingConnection(peer)
  \/ \E peer \in RemotePeerIds, throws \in BOOLEAN :
       \E message \in RemoteMessages(peer) : HandleMessage(message, peer, throws)

SpecReceipt == InitService /\ [][NextReceipt]_vars

\* C32: on receipt of any message from a peer of the connection set the last-seen
\* time of that peer is the time of the receipt when the message is dispatched,
\* and a HEARTBEAT changes nothing else: the connection set, the open
\* connections, the battle state (votes, tallies), the status and the sent
\* message are unchanged and no handler is called.
C32_LastSeenThenDispatch ==
  [][\A peer \in svc.connectedPeers, throws \in BOOLEAN :
       \A message \in RemoteMessages(peer) :
         HandleMessage(message, peer, throws)
           => /\ svc'.lastSeen[peer] = "receipt"
              /\ message.type = "HEARTBEAT"
                   => /\ dispatch(message.type) = "none"
                      /\ svc' = [svc EXCEPT !.lastSeen[peer] = "receipt"]
                      /\ bstate' = bstate
                      /\ lastSent' = lastSent]_vars

\* A HEARTBEAT was the first message received from a peer: its last-seen time
\* moved off the connection time and nothing was sent or merged.
C32_Witness ==
  /\ \E peer \in svc.connectedPeers : svc.lastSeen[peer] = "receipt"
  /\ bstate = StartedState
  /\ lastSent = NoBroadcast

\* ---------------------------------------------------------------------------
\* Status sequence of initialize() (SpecService)

\* C33: the status never goes from offline directly to connected: connected is
\* reported only from discovering, after the endpoint has opened and discovery
\* has completed.
C33_NeverOfflineToConnected ==
  [][svc.status = "offline" => svc'.status # "connected"]_vars

\* ---------------------------------------------------------------------------
\* The id space of discovery (SpecService)

\* C35: discovery attempts an outbound connection to every candidate id of the
\* room (the room id followed by 1..100) except the peer's own id, and every id
\* generatePeerId produces for the room is one of the candidates.
C35_DiscoveryProbesEveryCandidate ==
  [][\A c \in conts :
       PeerOpen(c)
         => /\ attemptConnections(svc) = candidatePeerIds(svc.roomId) \ {svc.peerId}
            /\ \A random \in 0..(RandomSteps - 1) :
                 generatePeerId(svc.roomId, randomNum(random))
                   \in candidatePeerIds(svc.roomId)]_vars

(***************************************************************************)
(* SpecCrowd: one session in a room of more than maxConnections peers      *)
(***************************************************************************)
NextCrowd ==
  \/ ServiceInitialize(CrowdParams)
  \/ \E c \in conts : PeerOpen(c)
  \/ \E c \in conts : DiscoveryDone(c)
  \/ \E h \in handshakes : ConnectionOpen(h)
  \/ \E peer \in LatePeerIds : IncomingConnection(peer)

SpecCrowd == InitService /\ [][NextCrowd]_vars

\* C34: the connection set never holds more than maxConnections (8) peers,
\* outbound connections of discovery and accepted inbound connections together.
C34_AtMostMaxConnections ==
  Cardinality(svc.connectedPeers) <= maxConnections

\* ---------------------------------------------------------------------------
\* Derived state of the reducer (Spec)

\* The count an item has in a results object, 0 without an entry (as
\* BattleArena reads it: results[name]?.count || 0).
CountIn(results, name) ==
  IF KeyIndex(results, name) = 0 THEN 0 ELSE results[KeyIndex(results, name)].count

RECURSIVE SumOfCounts(_, _)
SumOfCounts(results, k) ==
  IF k = 0 THEN 0 ELSE results[k].count + SumOfCounts(results, k - 1)

\* C36: after every reducer action totalVotes is the number of votes, the count
\* of each item is the number of votes for it, the counts add up to totalVotes
\* and each percentage is count / totalVotes * 100 (no entry without votes).
C36_DerivedStateMatchesVotes ==
  /\ state.totalVotes = Len(state.votes)
  /\ \A name \in ItemSet \cup {state.votes[i].pokemonName : i \in 1..Len(state.votes)} :
       CountIn(state.results, name)
         = Cardinality({i \in 1..Len(state.votes) : state.votes[i].pokemonName = name})
  /\ \A k, l \in 1..Len(state.results) :
       k # l => state.results[k].name # state.results[l].name
  /\ SumOfCounts(state.results, Len(state.results)) = state.totalVotes
  /\ \A k \in 1..Len(state.results) :
       /\ state.results[k].count > 0
       /\ state.results[k].percentage.den > 0
       /\ state.results[k].percentage.num * state.totalVotes
            = state.results[k].count * 100 * state.results[k].percentage.den
  /\ state.totalVotes = 0 => state.results = <<>>

\* Three votes, not all for one item, the last of them merged from a peer.
C36_Witness ==
  /\ Len(state.votes) = 3
  /\ Len(state.results) = 2
  /\ op.type \in {"RECEIVE_VOTE", "SYNC_RESPONSE"}
  /\ state # prev

(***************************************************************************)
(* SpecHandlers: the event handlers of P2PService and who registers them   *)
(***************************************************************************)
\* SpecHandlers: how often each of the two handler effects runs.
MaxRuns == 2

\* A setter that keeps a handler that is already there.
setHandlerKeepsFirst(handlers, event, callback) ==
  IF handlers[event] = noCallback THEN [handlers EXCEPT ![event] = callback]
  ELSE handlers

\* onVoteReceived(callback), ..., onSyncReceived(callback):
\* this.eventHandlers.<event> = callback.
setHandler(handlers, event, callback) == [handlers EXCEPT ![event] = callback]

\* this.eventHandlers.<event>?.(...): the callbacks an event calls, in order.
emit(handlers, event) ==
  IF handlers[event] = noCallback THEN <<>> ELSE <<handlers[event]>>

RECURSIVE setHandlers(_, _, _)
\* The setter calls of one effect run, for the events of the sequence.
setHandlers(handlers, events, callback) ==
  IF events = <<>> THEN handlers
  ELSE setHandlers(setHandler(handlers, Head(events), callback), Tail(events), callback)

\* The events useP2P's effect registers a handler for, in its order.
UseP2PEvents ==
  <<"onVoteReceived", "onPeerConnected", "onPeerDisconnected",
    "onConnectionStatusChanged", "onError", "onSyncReceived">>

\* The events BattleArena's effect registers a handler for.
BattleArenaEvents == <<"onSyncReceived", "onPeerConnected">>

HandlerFrame ==
  UNCHANGED <<reducerVars, winnerVars, receiveVars, netVars, ledgerVars, idVars, svcVars,
              lastSent, bstate, diskVars>>

\* A run of a handler effect (useP2P's "set up event handlers", BattleArena's
\* "set up P2P event handlers for state sync"): each run passes closures of its
\* own to the setters.
HandlersEffect(component, events) ==
  /\ effectRuns[component] < MaxRuns
  /\ LET callback == [by |-> component, run |-> effectRuns[component] + 1] IN
     /\ eventHandlers' = setHandlers(eventHandlers, events, callback)
     /\ registered' = [event \in Events |->
                         IF event \in Range(events) THEN callback ELSE registered[event]]
  /\ effectRuns' = [effectRuns EXCEPT ![component] = @ + 1]
  /\ UNCHANGED invoked
  /\ HandlerFrame

\* The service reaches this.eventHandlers.<event>?.(...).
Emit(event) ==
  /\ invoked' = [event |-> event, called |-> emit(eventHandlers, event)]
  /\ UNCHANGED <<eventHandlers, registered, effectRuns>>
  /\ HandlerFrame

InitHandlers ==
  /\ ServiceIdle
  /\ MsgIdle
  /\ IdsIdle
  /\ ReducerIdle
  /\ WinnerIdle
  /\ ReceiveIdle
  /\ NetIdle
  /\ LedgerIdle

NextHandlers ==
  \/ HandlersEffect("useP2P", UseP2PEvents)
  \/ HandlersEffect("BattleArena", BattleArenaEvents)
  \/ \E event \in Events : Emit(event)

SpecHandlers == InitHandlers /\ [][NextHandlers]_vars

\* C37: each event has one subscriber slot: registering replaces the handler
\* registered before, and an event calls the handler registered last for it and
\* no other (none when none was registered).
C37_SingleSubscriberSlot ==
  /\ [](eventHandlers = registered)
  /\ [][\A event \in Events :
          Emit(event)
            => invoked'.called =
                 IF registered[event] = noCallback THEN <<>> ELSE <<registered[event]>>]_vars

\* onSyncReceived was emitted after useP2P's and then BattleArena's effect had
\* registered a handler for it, and only BattleArena's was called.
C37_Witness ==
  /\ invoked.event = "onSyncReceived"
  /\ effectRuns.useP2P > 0
  /\ Len(invoked.called) = 1
  /\ invoked.called[1].by = "BattleArena"

\* ---------------------------------------------------------------------------
\* The reconnection budget of a service instance (SpecReconnect)

\* C38: over the sessions of a service instance (reconnections that succeed,
\* disconnect() and fresh initialize() calls included) connectionAttempts never
\* decreases and never exceeds reconnectAttempts, and a reconnection timeout is
\* scheduled only with the counter going up by one: the instance makes at most
\* reconnectAttempts reconnection attempts in its life.
C38_AttemptsOnlyGrowToBound ==
  /\ [](svc.connectionAttempts \in 0..reconnectAttempts)
  /\ [][/\ svc'.connectionAttempts >= svc.connectionAttempts
        /\ Len(reconnects') > Len(reconnects)
             => svc'.connectionAttempts = svc.connectionAttempts + 1]_vars

\* The service was torn down and initialized again, and in the new session the
\* counter stands at the bound with no reconnection timeout pending.
C38_Witness ==
  /\ svc.connectionAttempts = reconnectAttempts
  /\ gen = MaxSessions
  /\ ~torn
  /\ reconnects = <<>>
  /\ svc.status \in {"discovering", "connected"}

(***************************************************************************)
(* SpecStorage: the ledger functions over a localStorage that can fail     *)
(***************************************************************************)
\* Date.now() at the calls followed, in hours.
DiskTimes == {0, 1, VOTE_EXPIRY_HOURS, VOTE_EXPIRY_HOURS + 1}

\* getBrowserVotes with its try/catch: getItem may throw, the item may be
\* absent, may not parse to a list of records (JSON.parse or the filter throws)
\* or may be a list; the saving back of a shortened list may throw.  Every
\* throw ends in the catch, which returns [].
getBrowserVotesTry(d, time, getThrows, setThrows) ==
  LET validVotes == getBrowserVotes(d.votes, time) IN
  IF getThrows \/ d.item = "garbage"
  THEN [votes |-> <<>>, disk |-> d, threw |-> FALSE]
  ELSE IF d.item = "none"
  THEN [votes |-> <<>>, disk |-> d, threw |-> FALSE]
  ELSE IF Len(validVotes) # Len(d.votes)
  THEN IF setThrows
       THEN [votes |-> <<>>, disk |-> d, threw |-> FALSE]
       ELSE [votes |-> validVotes, disk |-> [item |-> "list", votes |-> validVotes],
             threw |-> FALSE]
  ELSE [votes |-> validVotes, disk |-> d, threw |-> FALSE]

\* saveBrowserVotes without the try/catch.
saveBrowserVotesUncaught(d, votes, setThrows) ==
  IF setThrows THEN [disk |-> d, threw |-> TRUE]
  ELSE [disk |-> [item |-> "list", votes |-> votes], threw |-> FALSE]

\* saveBrowserVotes: setItem in a try/catch that logs.
saveBrowserVotesTry(d, votes, setThrows) ==
  IF setThrows THEN [disk |-> d, threw |-> FALSE]
  ELSE [disk |-> [item |-> "list", votes |-> votes], threw |-> FALSE]

\* hasBrowserVotedInBattle(battleId) as a call.
hasBrowserVotedInBattleCall(d, time, battleId, getThrows, setThrows) ==
  LET read == getBrowserVotesTry(d, time, getThrows, setThrows) IN
  [noCall EXCEPT !.fn = "hasBrowserVotedInBattle", !.time = time,
                 !.voted = \E i \in 1..Len(read.votes) : read.votes[i].battleId = battleId,
                 !.threw = read.threw,
                 !.readFailed = getThrows \/ d.item = "garbage",
                 !.before = d, !.afterRead = read.disk, !.after = read.disk]

\* getBrowserVoteForBattle(battleId) as a call.
getBrowserVoteForBattleCall(d, time, battleId, getThrows, setThrows) ==
  LET read == getBrowserVotesTry(d, time, getThrows, setThrows)
      hits == SelectSeq(read.votes, LAMBDA vote : vote.battleId = battleId)
  IN
  [noCall EXCEPT !.fn = "getBrowserVoteForBattle", !.time = time,
                 !.vote = IF Len(hits) > 0 THEN <<hits[1]>> ELSE <<>>,
                 !.threw = read.threw,
                 !.readFailed = getThrows \/ d.item = "garbage",
                 !.before = d, !.afterRead = read.disk, !.after = read.disk]

\* recordBrowserVote(battleId, pokemonName) as a call: the read, then the save
\* of the list without the battle's earlier record and with the new one.
recordBrowserVoteCall(d, time, battleId, pokemonName, getThrows, setThrows, saveThrows) ==
  LET read == getBrowserVotesTry(d, time, getThrows, setThrows)
      saved == saveBrowserVotesTry(
                 read.disk, recordBrowserVote(read.votes, time, battleId, pokemonName),
                 saveThrows)
  IN
  [noCall EXCEPT !.fn = "recordBrowserVote", !.time = time,
                 !.threw = read.threw \/ saved.threw,
                 !.readFailed = getThrows \/ d.item = "garbage",
                 !.writeFailed = saveThrows,
                 !.before = d, !.afterRead = read.disk, !.after = saved.disk]

DiskFrame ==
  UNCHANGED <<reducerVars, winnerVars, receiveVars, netVars, ledgerVars, idVars, svcVars,
              lastSent, bstate, handlerVars>>

\* A call of one of the three ledger functions.
LedgerCall(call) ==
  /\ lastCall' = call
  /\ disk' = call.after
  /\ UNCHANGED diskNow
  /\ DiskFrame

\* The item is overwritten with something that is not a list of records.
DiskCorrupt ==
  /\ disk' = [item |-> "garbage", votes |-> <<>>]
  /\ UNCHANGED <<diskNow, lastCall>>
  /\ DiskFrame

\* Time passes.
DiskTick(time) ==
  /\ time > diskNow
  /\ diskNow' = time
  /\ UNCHANGED <<disk, lastCall>>
  /\ DiskFrame

InitStorage ==
  /\ ServiceIdle
  /\ MsgIdle
  /\ IdsIdle
  /\ ReducerIdle
  /\ WinnerIdle
  /\ ReceiveIdle
  /\ NetIdle
  /\ LedgerIdle

NextStorage ==
  \/ \E params \in LedgerParams, getThrows, setThrows \in BOOLEAN :
       LedgerCall(hasBrowserVotedInBattleCall(disk, diskNow, BattleIdOf(params),
                                              getThrows, setThrows))
  \/ \E params \in LedgerParams, getThrows, setThrows \in BOOLEAN :
       LedgerCall(getBrowserVoteForBattleCall(disk, diskNow, BattleIdOf(params),
                                              getThrows, setThrows))
  \/ \E params \in LedgerParams, pokemonName \in ItemSet,
        getThrows, setThrows, saveThrows \in BOOLEAN :
       LedgerCall(recordBrowserVoteCall(disk, diskNow, BattleIdOf(params), pokemonName,
                                        getThrows, setThrows, saveThrows))
  \/ DiskCorrupt
  \/ \E time \in DiskTimes : DiskTick(time)

SpecStorage == InitStorage /\ [][NextStorage]_vars

====
